---- MODULE Spec2Model ----
(***************************************************************************)
(* nomore-spam: the staged triage pipeline for newly opened issues and     *)
(* pull requests.  One behaviour of the model is one run of the action     *)
(* (run -> handleNewIssue / handleNewPR) on one event.  Every call to an   *)
(* external collaborator (the AI oracle, the GitHub REST/GraphQL API) is   *)
(* appended to `log` in the order in which it returns.                     *)
(*                                                                         *)
(* Text is modelled as sequences of one-character strings, so that trim,   *)
(* upper-casing and equality are computed as the JavaScript computes them. *)
(***************************************************************************)
EXTENDS Integers, Sequences, FiniteSets, TLC

VARIABLES
    eventName,            \* context.eventName
    eventAction,          \* context.payload.action
    author,               \* issue.user.login / pr.user.login (raw)
    blacklistUsers,       \* parsed blacklist (lower-cased logins)
    labelsList,           \* parsed label list
    analyzeChanges,       \* config.ai_settings.analyze_file_changes
    missingPrompt,        \* the key config.prompts lacks in config.json
    number,               \* issue.number / pr.number of the request
    issueBody,            \* issue.body
    other,                \* a second request of the process, while suspended
    lastIndex,            \* lastIndex of the shared TEMPLATE_INDICATORS objects
    headers,              \* extractUserContent: isHeader, line by line
    invoked,              \* the helper function under evaluation, with arguments
    returned,             \* what that function returned
    pc,                   \* position of the run
    log,                  \* external calls that have returned, in order
    readmeContent,        \* handleNewIssue: const readmeContent
    pinnedIssuesContent,  \* handleNewIssue: const pinnedIssuesContent
    spamResult,           \* analyzeIssue / analyzePR: spamResult
    coverageResult,       \* analyzeIssue: coverageResult
    commitResult,         \* analyzePR: commitResult
    qualityResult,        \* classifyAndHandleIssue / analyzePR: qualityResult
    classification,       \* classifyAndHandleIssue / classifyAndLabelPR
    readmeAnswer,         \* handleReadmeRelatedIssue: readmeAnswer
    decision,             \* analysisResult.decision
    step,                 \* analysisResult.step
    calls,                \* executeApiCalls: calls not yet issued
    results,              \* executeApiCalls: results
    pending,              \* executeApiCalls: the call in flight
    result,               \* what classifyAndHandleIssue returned
    outcome               \* how handleNewIssue / handleNewPR settled

vars == <<eventName, eventAction, author, blacklistUsers, labelsList,
          analyzeChanges, missingPrompt, number, issueBody, other,
          lastIndex, headers, invoked, returned, pc, log,
          readmeContent, pinnedIssuesContent,
          spamResult, coverageResult, commitResult, qualityResult,
          classification, readmeAnswer, decision, step, calls, results,
          pending, result, outcome>>

----------------------------------------------------------------------------
(* Text *)

LowerChars == <<"a","b","c","d","e","f","g","h","i","j","k","l","m",
                "n","o","p","q","r","s","t","u","v","w","x","y","z">>
UpperChars == <<"A","B","C","D","E","F","G","H","I","J","K","L","M",
                "N","O","P","Q","R","S","T","U","V","W","X","Y","Z">>
WhiteSpace == {" ", "\n", "\t"}

IndexIn(seq, c) == CHOOSE i \in 1..Len(seq) : seq[i] = c

UpperChar(c) ==
    IF \E i \in 1..Len(LowerChars) : LowerChars[i] = c
    THEN UpperChars[IndexIn(LowerChars, c)] ELSE c

LowerChar(c) ==
    IF \E i \in 1..Len(UpperChars) : UpperChars[i] = c
    THEN LowerChars[IndexIn(UpperChars, c)] ELSE c

\* String.prototype.toUpperCase / toLowerCase
toUpperCase(s) == [i \in 1..Len(s) |-> UpperChar(s[i])]
toLowerCase(s) == [i \in 1..Len(s) |-> LowerChar(s[i])]

\* String.prototype.trim
trim(s) ==
    LET keep == {i \in 1..Len(s) : s[i] \notin WhiteSpace}
    IN  IF keep = {} THEN <<>>
        ELSE LET lo == CHOOSE i \in keep : \A j \in keep : i <= j
                 hi == CHOOSE i \in keep : \A j \in keep : i >= j
             IN  SubSeq(s, lo, hi)

\* String.prototype.includes
includes(s, t) ==
    \E i \in 0..(Len(s) - Len(t)) : SubSeq(s, i + 1, i + Len(t)) = t

\* JavaScript truthiness of a string: '' is falsy
Truthy(s) == s # <<>>

\* A local that has not been assigned (no text is equal to it)
Unset == <<"<unset>">>

----------------------------------------------------------------------------
(* Vocabulary *)

SPAM        == <<"S","P","A","M">>
NOT_SPAM    == <<"N","O","T","_","S","P","A","M">>
COVERED     == <<"C","O","V","E","R","E","D">>
NOT_COVERED == <<"N","O","T","_","C","O","V","E","R","E","D">>
UNCLEAR     == <<"U","N","C","L","E","A","R">>
BASIC       == <<"B","A","S","I","C">>
VALID       == <<"V","A","L","I","D">>
INVALID     == <<"I","N","V","A","L","I","D">>
MALICIOUS   == <<"M","A","L","I","C","I","O","U","S">>
TRIVIAL     == <<"T","R","I","V","I","A","L">>

\* What the model may answer, before callAI normalises it: the bare token,
\* the token in lower case with surrounding white space, and the token
\* followed by further text.
Padded(tok)  == <<" ">> \o toLowerCase(tok) \o <<"\n">>
WithText(tok) == tok \o <<".">>

RawSpam     == {SPAM, Padded(SPAM), NOT_SPAM, WithText(SPAM)}
RawCoverage == {COVERED, Padded(COVERED), NOT_COVERED, WithText(COVERED)}
RawQuality  == {UNCLEAR, BASIC, Padded(BASIC), VALID, WithText(BASIC)}
RawCommit   == {INVALID, Padded(INVALID), VALID, WithText(INVALID)}
RawPRQuality == {UNCLEAR, MALICIOUS, TRIVIAL, Padded(TRIVIAL), VALID,
                 WithText(MALICIOUS)}
RawAnswer   == {<<"s","e","e"," ","R","E","A","D","M","E">>}
RawClass    == {<<"b","u","g">>, <<"B","U","G">>,
                <<"e","n","h","a","n","c","e","m","e","n","t">>,
                <<"b","u","g","f","i","x">>,
                <<"e","r","r","o","r">>,
                <<"f","i","x">>,
                <<"x","y","z">>}

\* The oracle call threw (transport failure or malformed response)
Failed == <<"<failed>">>

\* README.md contents the repository may have; '' when it has none
README      == <<"#"," ","d","o","c">>
PINNED      == <<"#","#"," ","F","A","Q">>

\* String.prototype.split(separator) for a separator of one character
RECURSIVE splitAt(_, _)
splitAt(s, separator) ==
    LET breaks == {i \in 1..Len(s) : s[i] = separator}
    IN  IF breaks = {} THEN <<s>>
        ELSE LET i == CHOOSE b \in breaks : \A c \in breaks : b <= c
             IN  <<SubSeq(s, 1, i - 1)>>
                 \o splitAt(SubSeq(s, i + 1, Len(s)), separator)

\* parseInputs: the blacklist input, split at commas, each login trimmed
\* and lower-cased, empty entries dropped; [] for an empty input
parseBlacklist(blacklistUsersInput) ==
    LET users  == splitAt(blacklistUsersInput, ",")
        clean  == [i \in 1..Len(users) |-> toLowerCase(trim(users[i]))]
        filled(user) == Len(user) > 0
    IN  IF Truthy(blacklistUsersInput) THEN SelectSeq(clean, filled)
        ELSE <<>>

\* The blacklist input of the workflow
BlacklistInputs == {<<>>, <<" ","E","V","E"," ",",">>}

Authors        == {<<"E","v","e">>, <<"b","o","b">>}
Blacklists     == {parseBlacklist(input) : input \in BlacklistInputs}
LabelLists     == {<<>>,
                   << <<"b","u","g">>,
                      <<"e","n","h","a","n","c","e","m","e","n","t">>,
                      <<"q","u","e","s","t","i","o","n">> >>,
                   << <<"b","u","g","f","i","x","-","u","r","g","e","n","t">>,
                      <<"b","u","g">> >>}
Events         == {<<"issues", "opened">>, <<"issues", "edited">>,
                   <<"pull_request_target", "opened">>,
                   <<"pull_request", "opened">>}

NoCall == [op |-> "none", arg |-> "none"]

\* issue.title and issue.body of the issues opened
issueTitle  == <<"c","r","a","s","h">>
IssueBodies == {<<">"," ","i","t"," ","c","r","a","s","h","e","s","\n",">"," ","a","l","w","a","y","s">>, <<"#","#","#"," ","S","t","e","p","s","\n","-"," ","[","x","]"," ","s","e","a","r","c","h","e","d">>}

----------------------------------------------------------------------------
(* The log of external calls *)

Entry(op, arg, ok) == [op |-> op, arg |-> arg, ok |-> ok, on |-> number]

Logged(op)        == {i \in 1..Len(log) : log[i].op = op}
LoggedArg(op, a)  == {i \in 1..Len(log) : log[i].op = op /\ log[i].arg = a}
OracleCalls       == Logged("oracle")
SideEffectOps     == {"comment", "close", "lock", "addLabels"}
SideEffects       == {i \in 1..Len(log) : log[i].op \in SideEffectOps}

----------------------------------------------------------------------------
(* Pure helpers of the code *)

\* callAI: response.choices[0].message.content.trim().toUpperCase()
callAI(raw) == toUpperCase(trim(raw))

\* this.config.prompts[name] is undefined: name.replace(...) throws a
\* TypeError before callAI is reached
Thrown == <<"<thrown>">>
\* What building the prompt `name` and asking the oracle can give
Ask(name, answers) ==
    IF missingPrompt = name THEN {Thrown} ELSE answers \cup {Failed}
\* The log after that: a call is recorded only when it was made
Asked(purpose, raw) ==
    IF raw = Thrown THEN log
    ELSE Append(log, Entry("oracle", purpose, raw # Failed))
\* The stage threw instead of returning an answer
Throws(raw) == raw \in {Failed, Thrown}

\* The characters the `.` of a regular expression does not match
LineTerminators == {"\n", "\r"}
OneLine(s) == \A i \in 1..Len(s) : s[i] \notin LineTerminators

\* isValidCommitTitle: the alternatives of the first group of commitRegex
CommitTypes == {<<"f","e","a","t">>, <<"f","i","x">>, <<"d","o","c","s">>, <<"s","t","y","l","e">>, <<"r","e","f","a","c","t","o","r">>,
                <<"p","e","r","f">>, <<"t","e","s","t">>, <<"c","h","o","r","e">>, <<"c","i">>, <<"b","u","i","l","d">>,
                <<"r","e","v","e","r","t">>}

\* commitRegex, matched from the left on t: the positions at which each
\* part of the expression can end.  `folded` is t as the i flag has it
\* compared with the letters of the pattern.
commitRegexTest(t, folded) ==
    LET \* ^(feat|fix|...)
        afterType  == {n \in 1..Len(t) : SubSeq(folded, 1, n) \in CommitTypes}
        \* (\(.+\))?
        afterScope == afterType \cup
            {k \in 1..Len(t) :
                \E p \in afterType :
                    /\ k >= p + 3
                    /\ t[p + 1] = "(" /\ t[k] = ")"
                    /\ OneLine(SubSeq(t, p + 2, k - 1))}
        \* ": "
        afterColon == {p + 2 : p \in {q \in afterScope :
                                        /\ q + 2 <= Len(t)
                                        /\ t[q + 1] = ":" /\ t[q + 2] = " "}}
    \* .{1,}$
    IN  \E p \in afterColon :
            p < Len(t) /\ OneLine(SubSeq(t, p + 1, Len(t)))

\* Mutant: commitRegex without the i flag
isValidCommitTitle_caseSensitive(title) ==
    commitRegexTest(trim(title), trim(title))

\* isValidCommitTitle: commitRegex.test(title.trim())
isValidCommitTitle(title) ==
    commitRegexTest(trim(title), toLowerCase(trim(title)))

\* String(n) for a natural number
RECURSIVE NumberToString(_)
NumberToString(n) ==
    LET digit(d) == <<"0","1","2","3","4","5","6","7","8","9">>[d + 1]
    IN  IF n < 10 THEN <<digit(n)>>
        ELSE NumberToString(n \div 10) \o <<digit(n % 10)>>

\* String.prototype.split('\n')
split(s) == splitAt(s, "\n")

\* Array.prototype.join('\n')
RECURSIVE join(_)
join(lines) ==
    IF lines = <<>> THEN <<>>
    ELSE IF Len(lines) = 1 THEN lines[1]
    ELSE lines[1] \o <<"\n">> \o join(Tail(lines))

\* Array.prototype.slice(0, n), n >= 0
slice(list, n) == SubSeq(list, 1, IF n < Len(list) THEN n ELSE Len(list))

\* line.startsWith('+') || line.startsWith('-')
IsChangeLine(line) == Len(line) > 0 /\ line[1] \in {"+", "-"}

\* Mutant: the patch is cut to maxPatchLines lines before it is filtered
changeInfo_sliceFirst(file, max_patch_lines_per_file) ==
    LET header == file.filename \o <<"(">> \o file.status \o <<",","+">>
                  \o NumberToString(file.additions) \o <<"/","-">>
                  \o NumberToString(file.deletions) \o <<")">>
        maxPatchLines == IF max_patch_lines_per_file = 0 THEN 5
                         ELSE max_patch_lines_per_file
        patchLines    == split(file.patch)
        limitedPatch  ==
            join(SelectSeq(slice(patchLines, maxPatchLines), IsChangeLine))
    IN  IF Truthy(file.patch) /\ Truthy(trim(limitedPatch))
        THEN header \o <<"\n">> \o limitedPatch \o
             (IF Len(SelectSeq(patchLines, IsChangeLine)) > maxPatchLines
              THEN <<"\n",".",".",".">> ELSE <<>>)
        ELSE header

\* analyzeFileChanges: the callback of filesToAnalyze.map, the text for
\* one file
changeInfo(file, max_patch_lines_per_file) ==
    LET header == file.filename \o <<"(">> \o file.status \o <<",","+">>
                  \o NumberToString(file.additions) \o <<"/","-">>
                  \o NumberToString(file.deletions) \o <<")">>
        maxPatchLines == IF max_patch_lines_per_file = 0 THEN 5
                         ELSE max_patch_lines_per_file
        patchLines    == split(file.patch)
        limitedPatch  ==
            join(slice(SelectSeq(patchLines, IsChangeLine), maxPatchLines))
    IN  IF Truthy(file.patch) /\ Truthy(trim(limitedPatch))
        THEN header \o <<"\n">> \o limitedPatch \o
             (IF Len(SelectSeq(patchLines, IsChangeLine)) > maxPatchLines
              THEN <<"\n",".",".",".">> ELSE <<>>)
        ELSE header

\* No truncation note is appended
NoNote == [total |-> 0, shown |-> 0]

\* Mutant: the note is appended as soon as the cap is reached
analyzeFileChanges_capReached(data, max_files_to_analyze, max_patch_lines_per_file) ==
    LET maxFiles == IF max_files_to_analyze = 0 THEN 5
                    ELSE max_files_to_analyze
        filesToAnalyze == slice(data, maxFiles)
    IN  IF Len(data) > 0
        THEN [fixed   |-> "none",
              entries |-> [i \in 1..Len(filesToAnalyze) |->
                             changeInfo(filesToAnalyze[i],
                                        max_patch_lines_per_file)],
              note    |-> IF Len(data) >= maxFiles
                          THEN [total |-> Len(data), shown |-> maxFiles]
                          ELSE NoNote]
        ELSE [fixed |-> "no_file_changes", entries |-> <<>>, note |-> NoNote]

\* analyzeFileChanges, once listFiles has answered with `data`: the texts
\* that are joined by '\n---\n', and the arguments of the
\* file_changes_truncated message appended to them (the message text is
\* in config.json)
analyzeFileChanges(data, max_files_to_analyze, max_patch_lines_per_file) ==
    LET maxFiles == IF max_files_to_analyze = 0 THEN 5
                    ELSE max_files_to_analyze
        filesToAnalyze == slice(data, maxFiles)
    IN  IF Len(data) > 0
        THEN [fixed   |-> "none",
              entries |-> [i \in 1..Len(filesToAnalyze) |->
                             changeInfo(filesToAnalyze[i],
                                        max_patch_lines_per_file)],
              note    |-> IF Len(data) > maxFiles
                          THEN [total |-> Len(data), shown |-> maxFiles]
                          ELSE NoNote]
        ELSE [fixed |-> "no_file_changes", entries |-> <<>>, note |-> NoNote]

\* Numbers of detectTemplate are fractions num/den with den > 0 (the
\* quotients of the code are exact in this form)
Rat(n) == [num |-> n, den |-> 1]
Quot(x, y) == [num |-> x.num * y.den, den |-> x.den * y.num]
Times(x, n) == [num |-> x.num * n, den |-> x.den]
Less(x, y) == x.num * y.den < y.num * x.den
MathMax(x, y) == IF Less(x, y) THEN y ELSE x
MathMin(x, y) == IF Less(y, x) THEN y ELSE x

\* TEMPLATE_PATTERNS.TITLE_PREFIXES
TITLE_PREFIXES == {<<"[","B","U","G","]">>, <<"[","F","E","A","T","U","R","E","]">>, <<"[","F","e","a","t","u","r","e"," ","R","e","q","u","e","s","t","]">>,
                   <<"[","B","u","g"," ","R","e","p","o","r","t","]">>, <<"[","E","N","H","A","N","C","E","M","E","N","T","]">>, <<"[","Q","U","E","S","T","I","O","N","]">>}
\* TEMPLATE_PATTERNS.COMMON_FIELDS. A character outside ASCII is written
\* as the name of its UTF-16 code unit ("u63cf" is one character)
COMMON_FIELDS ==
    {<<"d","e","s","c","r","i","p","t","i","o","n">>,
     <<"e","x","p","e","c","t","e","d"," ","b","e","h","a","v","i","o","r">>,
     <<"a","c","t","u","a","l"," ","b","e","h","a","v","i","o","r">>,
     <<"s","t","e","p","s"," ","t","o"," ","r","e","p","r","o","d","u","c","e">>,
     <<"e","n","v","i","r","o","n","m","e","n","t">>,
     <<"v","e","r","s","i","o","n">>,
     <<"b","r","o","w","s","e","r">>,
     <<"a","d","d","i","t","i","o","n","a","l"," ","c","o","n","t","e","x","t">>,
     <<"s","c","r","e","e","n","s","h","o","t","s">>,
     <<"u63cf","u8ff0">>,
     <<"u9884","u671f","u884c","u4e3a">>,
     <<"u5b9e","u9645","u884c","u4e3a">>,
     <<"u590d","u73b0","u6b65","u9aa4">>,
     <<"u73af","u5883","u4fe1","u606f">>,
     <<"u7248","u672c">>,
     <<"u6d4f","u89c8","u5668">>,
     <<"u9644","u52a0","u4fe1","u606f">>,
     <<"u622a","u56fe">>,
     <<"b","u","g","u63cf","u8ff0">>,
     <<"u529f","u80fd","u63cf","u8ff0">>,
     <<"u5982","u4f55","u5b9e","u73b0">>,
     <<"u81ea","u67e5">>,
     <<"u786e","u8ba4">>}

\* Regular expressions on the text B.  ^ with the m flag:
LineStart(B, s) == s = 1 \/ B[s - 1] = "\n"
\* the literal lit at position s
At(B, s, lit) ==
    s + Len(lit) - 1 <= Len(B) /\ SubSeq(B, s, s + Len(lit) - 1) = lit
\* \s* can take B[from..to]; .* can take B[from..to]
Blank(B, from, to) == \A i \in from..to : B[i] \in WhiteSpace
Dots(B, from, to) == \A i \in from..to : B[i] \notin LineTerminators
MaxOf(S) == CHOOSE x \in S : \A y \in S : y <= x
\* where a greedy .* that starts after position i ends
LineEnd(B, i) == MaxOf({e \in i..Len(B) : Dots(B, i + 1, e)})

\* For each position s the end of the match that starts at s, 0 for none.
\* /### .*/ and /## .*/
headerEnds(B, lit) ==
    [s \in 1..Len(B) |->
        IF At(B, s, lit) THEN LineEnd(B, s + Len(lit) - 1) ELSE 0]
\* /\*\*.+\*\*/, /\*\*(.+)\*\*/ and /<!--.+-->/
enclosedEnds(B, open, close) ==
    [s \in 1..Len(B) |->
        LET js == {j \in (s + Len(open) + 1)..Len(B) :
                      At(B, j, close) /\ Dots(B, s + Len(open), j - 1)}
        IN  IF At(B, s, open) /\ js # {}
            THEN MaxOf(js) + Len(close) - 1 ELSE 0]
\* /^\s*-\s*\[[\sx]\]/
checkboxEnds(B) ==
    [s \in 1..Len(B) |->
        LET bs == {b \in (s + 1)..(Len(B) - 2) :
                      /\ B[b] = "[" /\ B[b + 2] = "]"
                      /\ B[b + 1] \in WhiteSpace \cup {"x"}
                      /\ \E a \in s..(b - 1) :
                            /\ B[a] = "-"
                            /\ Blank(B, s, a - 1) /\ Blank(B, a + 1, b - 1)}
        IN  IF LineStart(B, s) /\ bs # {} THEN MaxOf(bs) + 2 ELSE 0]
\* /^>\s*.+/
quoteEnds(B) ==
    [s \in 1..Len(B) |->
        LET as == {a \in s..(Len(B) - 1) :
                      Blank(B, s + 1, a) /\ B[a + 1] \notin LineTerminators}
        IN  IF LineStart(B, s) /\ B[s] = ">" /\ as # {}
            THEN LineEnd(B, MaxOf(as) + 1) ELSE 0]
\* /\|\s*.+\s*\|/: the first \s* as long as possible, then .+ as long as
\* possible, then the second \s*
tableEnds(B) ==
    [s \in 1..Len(B) |->
        LET Closes(b, c) == /\ Blank(B, b + 1, c) /\ B[c + 1] = "|"
            Fills(a, b)  == /\ Dots(B, a + 1, b)
                            /\ \E c \in b..(Len(B) - 1) : Closes(b, c)
            as == {a \in s..(Len(B) - 2) :
                      /\ Blank(B, s + 1, a)
                      /\ \E b \in (a + 1)..(Len(B) - 1) : Fills(a, b)}
        IN  IF B[s] = "|" /\ as # {}
            THEN LET a == MaxOf(as)
                     b == MaxOf({x \in (a + 1)..(Len(B) - 1) : Fills(a, x)})
                     c == MaxOf({x \in b..(Len(B) - 1) : Closes(b, x)})
                 IN  c + 1
            ELSE 0]

\* String.prototype.match with the g flag: the number of matches, each
\* searched after the end of the one before
RECURSIVE matchCount(_, _)
matchCount(ends, from) ==
    LET starts == {s \in from..Len(ends) : ends[s] > 0}
    IN  IF starts = {} THEN 0
        ELSE LET s == CHOOSE x \in starts : \A y \in starts : x <= y
             IN  1 + matchCount(ends, ends[s] + 1)

\* detectTemplate: indicatorCount when the confidence is computed
indicatorCount(title, body) ==
    LET prefixed == \E prefix \in TITLE_PREFIXES : includes(title, prefix)
        bold == matchCount(enclosedEnds(body, <<"*","*">>, <<"*","*">>), 1)
        fieldCount == Cardinality({field \in COMMON_FIELDS :
                          includes(toLowerCase(body), field)})
    IN  (IF prefixed THEN 2 ELSE 0)
        + matchCount(headerEnds(body, <<"#","#","#"," ">>), 1)
        + matchCount(headerEnds(body, <<"#","#"," ">>), 1)
        + bold + bold
        + matchCount(enclosedEnds(body, <<"<","!","-","-">>,
                                  <<"-","-",">">>), 1)
        + matchCount(checkboxEnds(body), 1)
        + matchCount(quoteEnds(body), 1)
        + matchCount(tableEnds(body), 1)
        + (IF fieldCount >= 2 THEN fieldCount ELSE 0)

\* Mutant: a confidence of 30 is enough
hasTemplate_atLeast(confidence) == ~Less(confidence, Rat(30))

\* detectTemplate: result.hasTemplate = result.confidence > 30
hasTemplate(confidence) == Less(Rat(30), confidence)

\* detectTemplate (result.indicators, the texts for the log, left out)
detectTemplate(title, body) ==
    IF ~Truthy(body)
    THEN [hasTemplate |-> FALSE, templateType |-> "null",
          confidence |-> Rat(0)]
    ELSE LET totalLines == Len(split(body))
             confidence ==
                 MathMin(Rat(100),
                         Times(Quot(Rat(indicatorCount(title, body)),
                                    MathMax(Quot(Rat(totalLines), Rat(5)),
                                            Rat(1))),
                               100))
             mentions(word) == \/ includes(toLowerCase(title), word)
                               \/ includes(toLowerCase(body), word)
         IN  [hasTemplate  |-> hasTemplate(confidence),
              templateType |->
                  IF ~hasTemplate(confidence) THEN "null"
                  ELSE IF mentions(<<"b","u","g">>) THEN "bug_report"
                  ELSE IF mentions(<<"f","e","a","t","u","r","e">>) THEN "feature_request"
                  ELSE "generic",
              confidence   |-> confidence]

\* TEMPLATE_PATTERNS.TEMPLATE_INDICATORS[k - 1] on one line: the end of
\* the match at each position
indicatorEnds(k, line) ==
    IF k = 1 THEN headerEnds(line, <<"#","#","#"," ">>)
    ELSE IF k = 2 THEN headerEnds(line, <<"#","#"," ">>)
    ELSE IF k \in {3, 4} THEN enclosedEnds(line, <<"*","*">>, <<"*","*">>)
    ELSE IF k = 5
    THEN enclosedEnds(line, <<"<","!","-","-">>, <<"-","-",">">>)
    ELSE IF k = 6 THEN checkboxEnds(line)
    ELSE IF k = 7 THEN quoteEnds(line)
    ELSE tableEnds(line)

\* Mutant: the expressions of TEMPLATE_INDICATORS carry the g flag
IndicatorIsGlobal_g == TRUE

\* The expressions of TEMPLATE_INDICATORS are written without g and y
IndicatorIsGlobal == FALSE

\* RegExp.prototype.test of the k-th shared expression whose lastIndex is
\* `from`: a global expression searches after lastIndex and moves it, any
\* other searches from the start and leaves it
test(k, line, from) ==
    LET ends   == indicatorEnds(k, line)
        starts == {s \in (IF IndicatorIsGlobal THEN from + 1 ELSE 1)..Len(line) :
                      ends[s] > 0}
        first  == CHOOSE s \in starts : \A t \in starts : s <= t
    IN  IF ~IndicatorIsGlobal
        THEN [found |-> starts # {}, lastIndex |-> from]
        ELSE IF starts = {} THEN [found |-> FALSE, lastIndex |-> 0]
        ELSE [found |-> TRUE, lastIndex |-> ends[first]]

\* extractUserContent: TEMPLATE_INDICATORS.some(pattern => pattern.test(line)),
\* from the k-th expression on, with the lastIndex values idx
RECURSIVE isHeader(_, _, _)
isHeader(k, line, idx) ==
    IF k > 8 THEN [found |-> FALSE, lastIndex |-> idx]
    ELSE LET t    == test(k, line, idx[k])
             next == [idx EXCEPT ![k] = t.lastIndex]
         IN  IF t.found THEN [found |-> TRUE, lastIndex |-> next]
             ELSE isHeader(k + 1, line, next)

\* extractUserContent: the loop over the lines
RECURSIVE headerLines(_, _)
headerLines(lines, idx) ==
    IF lines = <<>> THEN [headers |-> <<>>, lastIndex |-> idx]
    ELSE LET h    == isHeader(1, lines[1], idx)
             rest == headerLines(Tail(lines), h.lastIndex)
         IN  [headers   |-> <<h.found>> \o rest.headers,
              lastIndex |-> rest.lastIndex]

\* String.prototype.replace(/[chars]/g, '')
without(s, chars) ==
    LET kept(c) == c \notin chars
    IN  SelectSeq(s, kept)

\* String.prototype.replace(/\[[\sx]\]/g, '')
RECURSIVE withoutCheckboxes(_)
withoutCheckboxes(s) ==
    IF Len(s) < 3 THEN s
    ELSE IF s[1] = "[" /\ s[2] \in WhiteSpace \cup {"x"} /\ s[3] = "]"
    THEN withoutCheckboxes(SubSeq(s, 4, Len(s)))
    ELSE <<s[1]>> \o withoutCheckboxes(Tail(s))

\* isEmptyContent: the EMPTY_PATTERNS on the trimmed content, then the
\* length of what is left when markup is removed
isEmptyContent(content) ==
    LET trimmed == trim(content)
        only(c) == trimmed # <<>> /\ \A i \in 1..Len(trimmed) : trimmed[i] = c
        cleanContent ==
            without(withoutCheckboxes(
                        without(content,
                                {"-", "_", "*", "#", ">"} \cup WhiteSpace)),
                    {"|"})
    IN  \/ ~Truthy(content) \/ Len(trimmed) = 0
        \/ toLowerCase(trimmed) \in {<<"_","n","o"," ","r","e","s","p","o","n","s","e","_">>, <<"n","/","a">>, <<"n","o","n","e">>}
        \/ trimmed \in {<<"u65e0">>, <<"u6ca1","u6709">>, <<"u6682","u65e0">>}
        \/ Blank(trimmed, 1, Len(trimmed))
        \/ only(".") \/ only("-") \/ only("#")
        \/ Len(cleanContent) < 3

\* extractUserContent: the section that ends is pushed when it has a title,
\* lines, and content that is not empty (lineStart and lineEnd left out)
pushSection(currentSection, currentContent, sections) ==
    LET content == trim(join(currentContent))
    IN  IF /\ currentSection # Unset /\ Truthy(currentSection)
           /\ Len(currentContent) > 0
           /\ Truthy(content) /\ ~isEmptyContent(content)
        THEN Append(sections, [title |-> currentSection, content |-> content])
        ELSE sections

\* extractUserContent: the loop over the lines and the last section;
\* isHeader[i] tells whether the i-th of the lines left opens a section
RECURSIVE extractSections(_, _, _, _, _)
extractSections(lines, header, currentSection, currentContent, sections) ==
    IF lines = <<>>
    THEN pushSection(currentSection, currentContent, sections)
    ELSE IF header[1]
    THEN extractSections(Tail(lines), Tail(header),
                         trim(without(lines[1], {"#", "*", ">"})), <<>>,
                         pushSection(currentSection, currentContent,
                                     sections))
    ELSE extractSections(Tail(lines), Tail(header), currentSection,
                         Append(currentContent, lines[1]), sections)

\* userContentParts.join('\n\n')
RECURSIVE joinParts(_)
joinParts(parts) ==
    IF parts = <<>> THEN <<>>
    ELSE IF Len(parts) = 1 THEN parts[1]
    ELSE parts[1] \o <<"\n", "\n">> \o joinParts(Tail(parts))

\* extractUserContent: what is returned for a body with a template, the
\* sections kept being those with content that is not empty
userContentOf(sections, found) ==
    LET valid(section) == /\ Truthy(section.content)
                          /\ ~isEmptyContent(section.content)
        userContentParts ==
            [i \in DOMAIN SelectSeq(sections, valid) |->
                SelectSeq(sections, valid)[i].title \o <<":", " ">>
                    \o SelectSeq(sections, valid)[i].content]
    IN  [userContent |-> joinParts(userContentParts),
         isEmpty |-> Len(SelectSeq(sections, valid)) = 0,
         extractedSections |-> sections,
         totalSections |-> Len(sections),
         validSections |-> Len(SelectSeq(sections, valid)),
         headers |-> found.headers, lastIndex |-> found.lastIndex]

\* extractUserContent: the sections of the lines, given what the loop
\* leaves in isHeader and in the shared expressions (found)
sectionsOf(lines, found) ==
    userContentOf(extractSections(lines, found.headers, Unset, <<>>, <<>>),
                  found)

\* extractUserContent; headers and lastIndex are what the loop leaves in
\* isHeader and in the shared expressions
extractUserContent(body, templateInfo, idx) ==
    IF ~Truthy(body) \/ ~templateInfo.hasTemplate
    THEN [userContent |-> body,
          isEmpty |-> ~Truthy(body) \/ Len(trim(body)) = 0,
          extractedSections |-> <<>>,
          totalSections |-> "undefined", validSections |-> "undefined",
          headers |-> <<>>, lastIndex |-> idx]
    ELSE sectionsOf(split(body), headerLines(split(body), idx))

\* Mutant: the free-form branches measure the body as it was sent
qualityScore_rawLength(title, body, templateInfo, contentInfo) ==
    50
    + (IF Truthy(title) /\ Len(trim(title)) > 10 THEN 15 ELSE -10)
    + (IF templateInfo.hasTemplate
       THEN IF ~contentInfo.isEmpty /\ contentInfo.validSections >= 2
            THEN 25
            ELSE IF ~contentInfo.isEmpty THEN 10 ELSE -20
       ELSE IF Len(body) > 50 THEN 20
            ELSE IF Len(body) > 10 THEN 5 ELSE -25)

\* analyzeIssueQuality: the score before it is clamped
qualityScore(title, body, templateInfo, contentInfo) ==
    50
    + (IF Truthy(title) /\ Len(trim(title)) > 10 THEN 15 ELSE -10)
    + (IF templateInfo.hasTemplate
       THEN IF ~contentInfo.isEmpty /\ contentInfo.validSections >= 2
            THEN 25
            ELSE IF ~contentInfo.isEmpty THEN 10 ELSE -20
       ELSE IF Truthy(body) /\ Len(trim(body)) > 50 THEN 20
            ELSE IF Truthy(body) /\ Len(trim(body)) > 10 THEN 5 ELSE -25)

\* Mutant: a score of 70 is not yet high
qualityLevel_above70(score) ==
    IF score > 70 THEN "high" ELSE IF score >= 40 THEN "medium" ELSE "low"

\* analyzeIssueQuality: analysis.quality.level
qualityLevel(score) ==
    IF score >= 70 THEN "high" ELSE IF score >= 40 THEN "medium" ELSE "low"

\* analyzeIssueQuality: the analysis returned, given what detectTemplate
\* and extractUserContent returned (quality.reasons, texts for the log,
\* left out); headers and lastIndex as in extractUserContent
analysisOf(title, body, templateInfo, contentInfo) ==
    LET raw   == qualityScore(title, body, templateInfo, contentInfo)
        score == IF raw > 100 THEN 100 ELSE IF raw < 0 THEN 0 ELSE raw
    IN  [templateInfo |-> templateInfo,
         contentInfo  |-> contentInfo,
         quality      |-> [score |-> score, level |-> qualityLevel(score)],
         headers      |-> contentInfo.headers,
         lastIndex    |-> contentInfo.lastIndex]

\* analyzeIssueQuality: the template found by detectTemplate is handed to
\* extractUserContent
analysisWith(title, body, templateInfo, idx) ==
    analysisOf(title, body, templateInfo,
               extractUserContent(body, templateInfo, idx))

\* analyzeIssueQuality
analyzeIssueQuality(title, body, idx) ==
    analysisWith(title, body, detectTemplate(title, body), idx)

\* Array.prototype.find: the first element of list among those at the
\* positions `hits` (where the callback returned true), <<>> for undefined
FirstMatch(list, hits) ==
    IF hits # {}
    THEN list[CHOOSE i \in hits : \A j \in hits : i <= j]
    ELSE <<>>

\* Mutant: the login is looked up as the platform spells it
IsBlacklisted_caseSensitive(login, blacklist) ==
    \E i \in 1..Len(blacklist) : blacklist[i] = login

\* blacklistUsers.includes(issue.user.login.toLowerCase())
IsBlacklisted(login, blacklist) ==
    \E i \in 1..Len(blacklist) : blacklist[i] = toLowerCase(login)

\* getReadmeContent: '' when the fetch failed or the file has no content
getReadmeContent(response) ==
    IF response = Failed THEN <<>> ELSE response

\* getPinnedIssuesContent: '' when the query failed or nothing is pinned
getPinnedIssuesContent(response) ==
    IF response = Failed THEN <<>> ELSE response

\* Mutant: only the README is looked at
SkipsCoverageOracle_readmeOnly(readme, pinned) == ~Truthy(readme)

\* checkReadmeCoverage: the oracle is skipped when there is no context
SkipsCoverageOracle(readme, pinned) == ~Truthy(readme) /\ ~Truthy(pinned)

\* Mutant: stage 1 still compares with the token of the one-stage handler
IssueSpamTerminal_oldToken(r) == r = <<"C","L","O","S","E">>

\* Mutant: stage 1 looks for the token inside the answer
IssueSpamTerminal_includes(r) == includes(r, SPAM)

\* analyzeIssue: the verdict of stage 1 / stage 2 that ends the detection
IssueSpamTerminal(r)     == r = SPAM

\* Mutant: stage 2 lets only NOT_COVERED pass
IssueCoverageTerminal_loose(r) == r # NOT_COVERED

IssueCoverageTerminal(r) == r = COVERED

\* Mutant: stage 2 compares with the name of the decision
PRCommitTerminal_decisionName(r) ==
    r = <<"I","N","V","A","L","I","D","_","C","O","M","M","I","T">>

\* Mutant: stage 2 lets only VALID pass
PRCommitTerminal_notValid(r) == r # VALID

\* Mutant: an UNCLEAR pull request is treated like a TRIVIAL one
PRQualityDecision_unclearTrivial(r) ==
    IF r = UNCLEAR THEN "TRIVIAL"
    ELSE IF r = MALICIOUS THEN "MALICIOUS"
    ELSE IF r = TRIVIAL THEN "TRIVIAL"
    ELSE "KEEP"

\* analyzePR: the verdicts that end the detection, stage by stage
PRSpamTerminal(r)    == r = SPAM
PRCommitTerminal(r)  == r = INVALID
PRQualityDecision(r) ==
    IF r = UNCLEAR THEN "UNCLEAR"
    ELSE IF r = MALICIOUS THEN "MALICIOUS"
    ELSE IF r = TRIVIAL THEN "TRIVIAL"
    ELSE "KEEP"

\* Mutant: the issue is closed before the comment is posted
closeIssue_closeFirst(comment, shouldLock) ==
    << [op |-> "close", arg |-> "issue"], [op |-> "comment", arg |-> comment] >>
    \o (IF shouldLock THEN << [op |-> "lock", arg |-> "issue"] >> ELSE <<>>)

\* closeIssue: the calls handed to executeApiCalls, in order
closeIssue(comment, shouldLock) ==
    << [op |-> "comment", arg |-> comment], [op |-> "close", arg |-> "issue"] >>
    \o (IF shouldLock THEN << [op |-> "lock", arg |-> "issue"] >> ELSE <<>>)

\* Mutant: closePR never asks for the lock
closePR_noLock(comment, shouldLock) ==
    << [op |-> "comment", arg |-> comment], [op |-> "close", arg |-> "pr"] >>

\* closePR: the calls handed to executeApiCalls, in order
closePR(comment, shouldLock) ==
    << [op |-> "comment", arg |-> comment], [op |-> "close", arg |-> "pr"] >>
    \o (IF shouldLock THEN << [op |-> "lock", arg |-> "pr"] >> ELSE <<>>)

\* Mutant: closePRWithType passes shouldLock = false
closePRDefaultLock_off == FALSE

\* closePRWithType calls closePR without shouldLock: the default applies
closePRDefaultLock == TRUE

\* Mutant: the shouldLock argument is left to its default
readmeCoveredShouldLock_default == TRUE

\* closeReadmeCoveredIssue passes shouldLock = false
readmeCoveredShouldLock == FALSE

\* Mutant: the catch logs the error and does not rethrow it
IssueHandlerCatch_swallow == "resolved"

\* handleNewIssue: catch (error) { core.error(...); throw error }
IssueHandlerCatch == "rejected"

\* handleNewPR: catch (error) { core.error(...); throw error }
PRHandlerCatch == "rejected"

\* closeIssueWithType / closePRWithType: the results array of closeIssue is
\* dropped, the handler resolves with undefined whatever the results are
closeWithTypeOutcome(res) == "resolved"

\* Mutant: the answer of the model is used as the label
IssueMatchedLabel_answer(c, labels) == c

\* IssueActionService.addClassificationLabel: labelsList.find(label =>
\*   classification.toUpperCase() === label.toUpperCase())
IssueMatchedLabel(c, labels) ==
    LET Same(l) == toUpperCase(c) = toUpperCase(l)
    IN  FirstMatch(labels, {i \in 1..Len(labels) : Same(labels[i])})

\* Mutant: every classified issue goes through the quality check
needsDetailedInfo_always(c, labels) == TRUE

\* Mutant: the decision is taken on the label that was resolved
needsDetailedInfo_resolvedLabel(c, labels) ==
    LET l == toLowerCase(IssueMatchedLabel(c, labels))
    IN  \/ includes(l, <<"b","u","g">>)
        \/ includes(l, <<"e","r","r","o","r">>)
        \/ includes(l, <<"f","i","x">>)

\* IssueWorkflowService.needsDetailedInfo
needsDetailedInfo(c, labels) ==
    LET lower == toLowerCase(c)
        bugLike(l) == \/ includes(toLowerCase(l), <<"b","u","g">>)
                      \/ includes(toLowerCase(l), <<"e","r","r","o","r">>)
                      \/ includes(toLowerCase(l), <<"f","i","x">>)
    IN  IF ~Truthy(c) THEN FALSE
        ELSE IF bugLike(c) THEN TRUE
        ELSE \E i \in 1..Len(labels) :
                 bugLike(labels[i]) /\ toLowerCase(labels[i]) = lower

\* Mutant: rules 2 and 3 are tried together, label by label
validateClassification_merged(c, labels) ==
    LET lc == toLowerCase(c)
        Exact(l)  == toLowerCase(l) = trim(lc)
        Either(l) == \/ includes(lc, toLowerCase(l))
                     \/ includes(toLowerCase(l), trim(lc))
        Hits(P(_)) == {i \in 1..Len(labels) : P(labels[i])}
    IN  IF ~Truthy(c) THEN <<>>
        ELSE IF Hits(Exact) # {} THEN FirstMatch(labels, Hits(Exact))
        ELSE FirstMatch(labels, Hits(Either))

\* Mutant: after rules 1-3 the alias groups are tried
validateClassification_alias(c, labels) ==
    LET lc == toLowerCase(c)
        Exact(l)    == toLowerCase(l) = trim(lc)
        Contains(l) == includes(lc, toLowerCase(l))
        Within(l)   == includes(toLowerCase(l), trim(lc))
        IsBug(l)    == includes(toLowerCase(l), <<"b","u","g">>)
        IsQuestion(l) ==
            includes(toLowerCase(l), <<"q","u","e","s","t","i","o","n">>)
        Hits(P(_))  == {i \in 1..Len(labels) : P(labels[i])}
    IN  IF ~Truthy(c) THEN <<>>
        ELSE IF Hits(Exact) # {} THEN FirstMatch(labels, Hits(Exact))
        ELSE IF Hits(Contains) # {} THEN FirstMatch(labels, Hits(Contains))
        ELSE IF Hits(Within) # {} THEN FirstMatch(labels, Hits(Within))
        ELSE IF /\ \/ includes(lc, <<"b","u","g">>)
                   \/ includes(lc, <<"f","i","x">>)
                   \/ includes(lc, <<"e","r","r","o","r">>)
                /\ Hits(IsBug) # {}
             THEN FirstMatch(labels, Hits(IsBug))
        ELSE IF /\ \/ includes(lc, <<"q","u","e","s","t","i","o","n">>)
                   \/ includes(lc, <<"h","e","l","p">>)
                /\ Hits(IsQuestion) # {}
             THEN FirstMatch(labels, Hits(IsQuestion))
        ELSE <<>>

\* Mutant: an exact match returns the answer as the oracle wrote it
validateClassification_returnsAnswer(c, labels) ==
    LET lc == toLowerCase(c)
        Exact(l)    == toLowerCase(l) = trim(lc)
        Contains(l) == includes(lc, toLowerCase(l))
        Within(l)   == includes(toLowerCase(l), trim(lc))
        Hits(P(_))  == {i \in 1..Len(labels) : P(labels[i])}
    IN  IF ~Truthy(c) THEN <<>>
        ELSE IF Hits(Exact) # {} THEN c
        ELSE IF Hits(Contains) # {} THEN FirstMatch(labels, Hits(Contains))
        ELSE FirstMatch(labels, Hits(Within))

\* ClassificationService.validateClassification (used for pull requests)
validateClassification(c, labels) ==
    LET lc == toLowerCase(c)
        Exact(l)    == toLowerCase(l) = trim(lc)
        Contains(l) == includes(lc, toLowerCase(l))
        Within(l)   == includes(toLowerCase(l), trim(lc))
        Hits(P(_))  == {i \in 1..Len(labels) : P(labels[i])}
    IN  IF ~Truthy(c) THEN <<>>
        ELSE IF Hits(Exact) # {} THEN FirstMatch(labels, Hits(Exact))
        ELSE IF Hits(Contains) # {} THEN FirstMatch(labels, Hits(Contains))
        ELSE FirstMatch(labels, Hits(Within))

\* Mutant: IssueActionService also defines closeAndLock
ActionServiceHas_closeAndLock(method) ==
    method \in {"addReadmeAnswer", "addClassificationLabel",
                "closeReadmeCoveredIssue", "logReadmeRelevanceCheck",
                "logClassificationStart", "closeAndLock"}

\* The methods class IssueActionService defines; calling any other method
\* of this.actionService throws a TypeError
ActionServiceHas(method) ==
    method \in {"addReadmeAnswer", "addClassificationLabel",
                "closeReadmeCoveredIssue", "logReadmeRelevanceCheck",
                "logClassificationStart"}

\* IssueWorkflowService.fetchReadmeContent: the constructor never assigns
\* this.octokit, so this.octokit.rest throws inside the try and the catch
\* returns null; no request is sent
fetchReadmeContent == <<>>

NEED_MORE_INFO == <<"N","E","E","D","_","M","O","R","E","_","I","N","F","O">>
HELPFUL_PREFIX == <<"H","E","L","P","F","U","L","_","A","N","S","W","E","R",":">>
RawSmart == {NEED_MORE_INFO, HELPFUL_PREFIX \o <<" ","r","e","a","d"," ","i","t">>,
             <<"o","k">>}

\* generateSmartAnswerForUnclear: how the oracle's text is parsed;
\* <<>> stands for null
parseSmartAnswer(text) ==
    IF Len(text) >= Len(HELPFUL_PREFIX)
       /\ SubSeq(text, 1, Len(HELPFUL_PREFIX)) = HELPFUL_PREFIX
    THEN trim(SubSeq(text, Len(HELPFUL_PREFIX) + 1, Len(text)))
    ELSE IF text = NEED_MORE_INFO THEN <<>>
    ELSE IF Truthy(text) /\ Len(text) > 10 THEN text ELSE <<>>

\* handleUnclearIssueSmartly(owner, repo, issue, readme): the calls it makes
\* and whether it throws, given what the oracle answers (raw) and whether
\* the first and the second comment call succeed
handleUnclearIssueSmartly(readme, raw, ok1, ok2) ==
    LET std(ok)  == Entry("comment", "issue_unclear", ok)
        asked    == Entry("oracle", "smart", raw # Failed)
        pre(es, r) == [entries |-> es \o r.entries, threw |-> r.threw]
        \* the catch block posts the standard prompt
        inCatch  == IF ~ActionServiceHas("addComment")
                    THEN [entries |-> <<>>, threw |-> TRUE]
                    ELSE [entries |-> <<std(ok2)>>, threw |-> ~ok2]
        \* the try block falls back to the standard prompt
        standard == IF ~ActionServiceHas("addComment") THEN inCatch
                    ELSE IF ok1
                    THEN [entries |-> <<std(TRUE)>>, threw |-> FALSE]
                    ELSE pre(<<std(FALSE)>>, inCatch)
    IN  IF ~Truthy(readme) THEN standard
        ELSE IF raw = Failed THEN pre(<<asked>>, inCatch)
        ELSE IF Truthy(parseSmartAnswer(callAI(raw)))
        THEN IF ~ActionServiceHas("addUnclearSmartAnswer")
             THEN pre(<<asked>>, inCatch)
             ELSE IF ok1
             THEN [entries |-> <<asked, Entry("comment", "smart_answer", TRUE)>>,
                   threw |-> FALSE]
             ELSE pre(<<asked, Entry("comment", "smart_answer", FALSE)>>, inCatch)
        ELSE pre(<<asked>>, standard)

----------------------------------------------------------------------------
(* State *)

inputs   == <<eventName, eventAction, author, blacklistUsers, labelsList,
              analyzeChanges, missingPrompt, number, issueBody, other>>
\* What only the template analysis of an issue changes
template == <<lastIndex, headers>>
fetched  == <<readmeContent, pinnedIssuesContent>>
verdicts == <<spamResult, coverageResult, commitResult, qualityResult>>
analysis == <<decision, step>>
batch    == <<calls, results, pending>>

\* No helper function is under evaluation
NoInvocation == [fn |-> "none"]

\* No second request
NoRun == [pc |-> "none"]

\* The locals of a run before run() is entered
Start ==
    /\ lastIndex = [k \in 1..8 |-> 0]
    /\ headers = Unset
    /\ log = <<>>
    /\ readmeContent = Unset
    /\ pinnedIssuesContent = Unset
    /\ spamResult = Unset
    /\ coverageResult = Unset
    /\ commitResult = Unset
    /\ qualityResult = Unset
    /\ classification = Unset
    /\ readmeAnswer = Unset
    /\ decision = "none"
    /\ step = 0
    /\ calls = <<>>
    /\ results = <<>>
    /\ pending = NoCall
    /\ result = "none"
    /\ outcome = "running"
    /\ invoked = NoInvocation
    /\ returned = Unset

\* One run on one event, with a complete config.json
Init ==
    /\ \E e \in Events : eventName = e[1] /\ eventAction = e[2]
    /\ author \in Authors
    /\ blacklistUsers \in Blacklists
    /\ labelsList \in LabelLists
    /\ analyzeChanges \in BOOLEAN
    /\ missingPrompt = "none"
    /\ number = 1
    /\ issueBody \in IF eventName = "issues" THEN IssueBodies ELSE {<<>>}
    /\ other = NoRun
    /\ pc = "load"
    /\ Start

\* The handler returns (resolved) or throws (rejected)
Settle(o) == pc' = "done" /\ outcome' = o

\* executeApiCalls(cs) is entered
StartBatch(cs) ==
    /\ pc' = "exec"
    /\ calls' = cs
    /\ results' = <<>>
    /\ pending' = NoCall
    /\ outcome' = outcome

----------------------------------------------------------------------------
(* run: loadConfig, then event dispatch *)

\* The keys of config.prompts that the handlers read
Prompts == {"spam_detection", "readme_coverage_check", "readme_answer",
            "issue_classification", "content_quality_check",
            "pr_spam_detection", "pr_commit_check", "pr_quality_check",
            "pr_classification"}

\* validateConfig: the prompts whose absence makes loadConfig throw
requiredPrompts == {"spam_detection", "readme_coverage_check",
                    "content_quality_check", "pr_spam_detection"}

\* run: loadConfig() throws when validateConfig rejects config.json; the
\* catch of run calls core.setFailed and no handler is entered
loadConfig ==
    /\ pc = "load"
    /\ IF missingPrompt \in requiredPrompts
       THEN Settle("failed")
       ELSE pc' = "run" /\ outcome' = outcome
    /\ UNCHANGED <<inputs, template, invoked, returned, log, fetched, verdicts,
                   classification, readmeAnswer, analysis, batch, result>>

run ==
    /\ pc = "run"
    /\ IF eventName = "issues" /\ eventAction = "opened"
       THEN pc' = "issue" /\ outcome' = outcome
       ELSE IF eventName = "pull_request_target" /\ eventAction = "opened"
       THEN pc' = "pr" /\ outcome' = outcome
       ELSE Settle("resolved")
    /\ UNCHANGED <<inputs, template, invoked, returned, log, fetched, verdicts, classification,
                   readmeAnswer, analysis, batch, result>>

----------------------------------------------------------------------------
(* executeApiCalls: one call at a time, each awaited before the next *)

executeApiCalls_issue ==
    /\ pc = "exec"
    /\ pending = NoCall
    /\ calls # <<>>
    /\ pending' = Head(calls)
    /\ calls' = Tail(calls)
    /\ UNCHANGED <<inputs, template, invoked, returned, pc, log, fetched, verdicts, classification,
                   readmeAnswer, analysis, results, result, outcome>>

executeApiCalls_return ==
    /\ pc = "exec"
    /\ pending # NoCall
    /\ \E ok \in BOOLEAN :
          /\ log' = Append(log, Entry(pending.op, pending.arg, ok))
          /\ results' = Append(results, ok)
          /\ pending' = NoCall
          /\ IF calls = <<>>
             THEN Settle(closeWithTypeOutcome(Append(results, ok)))
             ELSE pc' = pc /\ outcome' = outcome
    /\ UNCHANGED <<inputs, template, invoked, returned, fetched, verdicts, classification, readmeAnswer,
                   analysis, calls, result>>

----------------------------------------------------------------------------
(* handleNewIssue *)

handleNewIssue_blacklist ==
    /\ pc = "issue"
    /\ IF IsBlacklisted(author, blacklistUsers)
       THEN StartBatch(closeIssue("issue_blacklist", TRUE))
       ELSE pc' = "getReadme" /\ UNCHANGED <<batch, outcome>>
    /\ UNCHANGED <<inputs, template, invoked, returned, log, fetched, verdicts, classification,
                   readmeAnswer, analysis, result>>

handleNewIssue_getReadme ==
    /\ pc = "getReadme"
    /\ \E response \in {Failed, <<>>, README} :
          /\ readmeContent' = getReadmeContent(response)
          /\ log' = Append(log, Entry("fetch", "readme", response # Failed))
    /\ pc' = "getPinned"
    /\ UNCHANGED <<inputs, template, invoked, returned, pinnedIssuesContent, verdicts, classification,
                   readmeAnswer, analysis, batch, result, outcome>>

\* handleNewIssue: getPinnedIssuesContent returns; analyzeIssueQuality
\* runs before the next await
handleNewIssue_getPinned ==
    /\ pc = "getPinned"
    /\ \E response \in {Failed, <<>>, PINNED} :
          /\ pinnedIssuesContent' = getPinnedIssuesContent(response)
          /\ log' = Append(log, Entry("fetch", "pinned", response # Failed))
    /\ LET qualityAnalysis == analyzeIssueQuality(issueTitle, issueBody, lastIndex)
       IN  /\ headers' = qualityAnalysis.headers
           /\ lastIndex' = qualityAnalysis.lastIndex
    /\ pc' = "detectSpam"
    /\ UNCHANGED <<inputs, invoked, returned, readmeContent, verdicts, classification,
                   readmeAnswer, analysis, batch, result, outcome>>

\* analyzeIssue, stage 1
analyzeIssue_detectSpam ==
    /\ pc = "detectSpam"
    /\ \E raw \in Ask("spam_detection", RawSpam) :
          /\ log' = Asked("spam", raw)
          /\ IF Throws(raw)
             THEN /\ Settle(IssueHandlerCatch)
                  /\ UNCHANGED <<spamResult, analysis>>
             ELSE /\ spamResult' = callAI(raw)
                  /\ outcome' = outcome
                  /\ IF IssueSpamTerminal(callAI(raw))
                     THEN decision' = "SPAM" /\ step' = 1 /\ pc' = "decided"
                     ELSE pc' = "coverage" /\ UNCHANGED analysis
    /\ UNCHANGED <<inputs, template, invoked, returned, fetched, coverageResult, commitResult,
                   qualityResult, classification, readmeAnswer, batch, result>>

\* analyzeIssue, stage 2 (checkReadmeCoverage)
analyzeIssue_checkReadmeCoverage ==
    /\ pc = "coverage"
    /\ \E raw \in Ask("readme_coverage_check", RawCoverage) :
          LET skipped == SkipsCoverageOracle(readmeContent, pinnedIssuesContent)
              answer  == IF skipped THEN NOT_COVERED ELSE callAI(raw)
          IN  /\ log' = IF skipped THEN log ELSE Asked("coverage", raw)
              /\ IF ~skipped /\ Throws(raw)
                 THEN /\ Settle(IssueHandlerCatch)
                      /\ UNCHANGED <<coverageResult, analysis>>
                 ELSE /\ coverageResult' = answer
                      /\ pc' = "decided"
                      /\ outcome' = outcome
                      /\ step' = 2
                      /\ decision' = IF IssueCoverageTerminal(answer)
                                     THEN "README_COVERED" ELSE "KEEP"
    /\ UNCHANGED <<inputs, template, invoked, returned, fetched, spamResult, commitResult, qualityResult,
                   classification, readmeAnswer, batch, result>>

\* handleNewIssue: the branch on analysisResult.decision
handleNewIssue_decided ==
    /\ pc = "decided"
    /\ eventName = "issues"
    /\ IF decision = "SPAM"
       THEN StartBatch(closeIssue("issue_spam", TRUE))
       ELSE IF decision = "README_COVERED"
       THEN pc' = "generateAnswer" /\ UNCHANGED <<batch, outcome>>
       ELSE pc' = "classify" /\ UNCHANGED <<batch, outcome>>
    /\ UNCHANGED <<inputs, template, invoked, returned, log, fetched, verdicts, classification,
                   readmeAnswer, analysis, result>>

\* handleReadmeRelatedIssue: generateReadmeAnswer; a throw is caught and
\* the method returns false
handleReadmeRelatedIssue_generate ==
    /\ pc = "generateAnswer"
    /\ \E raw \in Ask("readme_answer", RawAnswer) :
          /\ log' = Asked("answer", raw)
          /\ IF Throws(raw)
             THEN Settle("resolved") /\ UNCHANGED readmeAnswer
             ELSE /\ readmeAnswer' = callAI(raw)
                  /\ pc' = "addAnswer" /\ outcome' = outcome
    /\ UNCHANGED <<inputs, template, invoked, returned, fetched, verdicts, classification, analysis,
                   batch, result>>

\* handleReadmeRelatedIssue: addReadmeAnswer (addComment rethrows, the
\* throw is caught by handleReadmeRelatedIssue), then closeReadmeCoveredIssue
handleReadmeRelatedIssue_answer ==
    /\ pc = "addAnswer"
    /\ \E ok \in BOOLEAN :
          /\ log' = Append(log, Entry("comment", "readme_answer", ok))
          /\ IF ok
             THEN StartBatch(closeIssue("issue_readme_covered", readmeCoveredShouldLock))
             ELSE Settle("resolved") /\ UNCHANGED batch
    /\ UNCHANGED <<inputs, template, invoked, returned, fetched, verdicts, classification, readmeAnswer,
                   analysis, result>>

\* classifyAndHandleIssue: classifier.classifyIssue; a throw is caught
\* and { classification: null, error: true } is returned
classifyAndHandleIssue_classify ==
    /\ pc = "classify"
    /\ \E raw \in Ask("issue_classification", RawClass) :
          /\ log' = Asked("classify", raw)
          /\ IF Throws(raw)
             THEN /\ Settle("resolved")
                  /\ result' = "error"
                  /\ UNCHANGED classification
             ELSE /\ classification' = callAI(raw)
                  /\ pc' = "addLabel"
                  /\ UNCHANGED <<result, outcome>>
    /\ UNCHANGED <<inputs, template, invoked, returned, fetched, verdicts, readmeAnswer, analysis, batch>>

\* classifyAndHandleIssue: actionService.addClassificationLabel (a failed
\* addLabels is caught there), then the needsDetailedInfo branch
classifyAndHandleIssue_label ==
    /\ pc = "addLabel"
    /\ LET matchedLabel == IssueMatchedLabel(classification, labelsList)
       IN  \E ok \in BOOLEAN :
              log' = IF Truthy(matchedLabel)
                     THEN Append(log, [op |-> "addLabels", arg |-> "label",
                                       ok |-> ok, on |-> number,
                                       label |-> matchedLabel])
                     ELSE log
    /\ IF needsDetailedInfo(classification, labelsList)
       THEN pc' = "quality" /\ UNCHANGED <<result, outcome>>
       ELSE Settle("resolved") /\ result' = "keep"
    /\ UNCHANGED <<inputs, template, invoked, returned, fetched, verdicts, classification, readmeAnswer,
                   analysis, batch>>

\* classifyAndHandleIssue: analyzer.checkContentQuality
classifyAndHandleIssue_quality ==
    /\ pc = "quality"
    /\ \E raw \in Ask("content_quality_check", RawQuality) :
          /\ log' = Asked("quality", raw)
          /\ IF Throws(raw)
             THEN /\ Settle("resolved")
                  /\ result' = "error"
                  /\ UNCHANGED qualityResult
             ELSE /\ qualityResult' = callAI(raw)
                  /\ IF callAI(raw) = UNCLEAR
                     THEN pc' = "unclear" /\ UNCHANGED <<result, outcome>>
                     ELSE IF callAI(raw) = BASIC
                     THEN pc' = "basic" /\ UNCHANGED <<result, outcome>>
                     ELSE Settle("resolved") /\ result' = "keep"
    /\ UNCHANGED <<inputs, template, invoked, returned, fetched, spamResult, coverageResult, commitResult,
                   classification, readmeAnswer, analysis, batch>>

\* classifyAndHandleIssue, UNCLEAR: fetchReadmeContent, then
\* handleUnclearIssueSmartly; a throw is caught by classifyAndHandleIssue
classifyAndHandleIssue_unclear ==
    /\ pc = "unclear"
    /\ \E raw \in RawSmart \cup {Failed}, ok1 \in BOOLEAN, ok2 \in BOOLEAN :
          LET r == handleUnclearIssueSmartly(fetchReadmeContent, raw, ok1, ok2)
          IN  /\ log' = log \o r.entries
              /\ result' = IF r.threw THEN "error" ELSE "needsInfo"
    /\ Settle("resolved")
    /\ UNCHANGED <<inputs, template, invoked, returned, fetched, verdicts, classification, readmeAnswer,
                   analysis, batch>>

\* classifyAndHandleIssue, BASIC: this.actionService.closeAndLock(...);
\* the TypeError of a missing method is caught by classifyAndHandleIssue
classifyAndHandleIssue_basic ==
    /\ pc = "basic"
    /\ IF ActionServiceHas("closeAndLock")
       THEN StartBatch(closeIssue("issue_basic", TRUE)) /\ result' = "closed"
       ELSE Settle("resolved") /\ result' = "error" /\ UNCHANGED batch
    /\ UNCHANGED <<inputs, template, invoked, returned, log, fetched, verdicts, classification,
                   readmeAnswer, analysis>>

----------------------------------------------------------------------------
(* handleNewPR *)

handleNewPR_blacklist ==
    /\ pc = "pr"
    /\ IF IsBlacklisted(author, blacklistUsers)
       THEN StartBatch(closePR("pr_closed", closePRDefaultLock))
       ELSE pc' = "fileChanges" /\ UNCHANGED <<batch, outcome>>
    /\ UNCHANGED <<inputs, template, invoked, returned, log, fetched, verdicts, classification,
                   readmeAnswer, analysis, result>>

\* analyzeFileChanges: listFiles is requested only when the analysis is
\* enabled; a failed request is caught and replaced by a fixed text
handleNewPR_analyzeFileChanges ==
    /\ pc = "fileChanges"
    /\ \E ok \in BOOLEAN :
          log' = IF analyzeChanges
                 THEN Append(log, Entry("fetch", "files", ok)) ELSE log
    /\ pc' = "prSpam"
    /\ UNCHANGED <<inputs, template, invoked, returned, fetched, verdicts, classification, readmeAnswer,
                   analysis, batch, result, outcome>>

\* analyzePR, stage 1
analyzePR_detectPRSpam ==
    /\ pc = "prSpam"
    /\ \E raw \in Ask("pr_spam_detection", RawSpam) :
          /\ log' = Asked("pr_spam", raw)
          /\ IF Throws(raw)
             THEN Settle(PRHandlerCatch) /\ UNCHANGED <<spamResult, analysis>>
             ELSE /\ spamResult' = callAI(raw)
                  /\ outcome' = outcome
                  /\ IF PRSpamTerminal(callAI(raw))
                     THEN decision' = "SPAM" /\ step' = 1 /\ pc' = "decided"
                     ELSE pc' = "prCommit" /\ UNCHANGED analysis
    /\ UNCHANGED <<inputs, template, invoked, returned, fetched, coverageResult, commitResult,
                   qualityResult, classification, readmeAnswer, batch, result>>

\* analyzePR, stage 2 (checkPRCommitCompliance asks the oracle)
analyzePR_checkPRCommitCompliance ==
    /\ pc = "prCommit"
    /\ \E raw \in Ask("pr_commit_check", RawCommit) :
          /\ log' = Asked("pr_commit", raw)
          /\ IF Throws(raw)
             THEN Settle(PRHandlerCatch) /\ UNCHANGED <<commitResult, analysis>>
             ELSE /\ commitResult' = callAI(raw)
                  /\ outcome' = outcome
                  /\ IF PRCommitTerminal(callAI(raw))
                     THEN /\ decision' = "INVALID_COMMIT" /\ step' = 2
                          /\ pc' = "decided"
                     ELSE pc' = "prQuality" /\ UNCHANGED analysis
    /\ UNCHANGED <<inputs, template, invoked, returned, fetched, spamResult, coverageResult,
                   qualityResult, classification, readmeAnswer, batch, result>>

\* analyzePR, stage 3
analyzePR_checkPRQuality ==
    /\ pc = "prQuality"
    /\ \E raw \in Ask("pr_quality_check", RawPRQuality) :
          /\ log' = Asked("pr_quality", raw)
          /\ IF Throws(raw)
             THEN Settle(PRHandlerCatch) /\ UNCHANGED <<qualityResult, analysis>>
             ELSE /\ qualityResult' = callAI(raw)
                  /\ outcome' = outcome
                  /\ decision' = PRQualityDecision(callAI(raw))
                  /\ step' = 3
                  /\ pc' = "decided"
    /\ UNCHANGED <<inputs, template, invoked, returned, fetched, spamResult, coverageResult, commitResult,
                   classification, readmeAnswer, batch, result>>

\* handleNewPR: the branch on analysisResult.decision; handleValidPR
\* classifies only when the label list is not empty
handleNewPR_decided ==
    /\ pc = "decided"
    /\ eventName = "pull_request_target"
    /\ IF decision = "SPAM"
       THEN StartBatch(closePR("pr_closed", closePRDefaultLock))
       ELSE IF decision = "INVALID_COMMIT"
       THEN StartBatch(closePR("pr_invalid_commit", closePRDefaultLock))
       ELSE IF decision = "MALICIOUS"
       THEN StartBatch(closePR("pr_malicious", closePRDefaultLock))
       ELSE IF decision = "TRIVIAL"
       THEN StartBatch(closePR("pr_trivial", closePRDefaultLock))
       ELSE IF Len(labelsList) > 0
       THEN pc' = "prClassify" /\ UNCHANGED <<batch, outcome>>
       ELSE Settle("resolved") /\ UNCHANGED batch
    /\ UNCHANGED <<inputs, template, invoked, returned, log, fetched, verdicts, classification,
                   readmeAnswer, analysis, result>>

\* classifyAndLabelPR: classifier.classifyPR; a throw is caught, false
classifyAndLabelPR_classify ==
    /\ pc = "prClassify"
    /\ \E raw \in Ask("pr_classification", RawClass) :
          /\ log' = Asked("pr_classify", raw)
          /\ IF Throws(raw)
             THEN Settle("resolved") /\ UNCHANGED classification
             ELSE /\ classification' = callAI(raw)
                  /\ pc' = "prAddLabel" /\ outcome' = outcome
    /\ UNCHANGED <<inputs, template, invoked, returned, fetched, verdicts, readmeAnswer, analysis, batch,
                   result>>

\* PrActionService.addClassificationLabel: validateClassification, then
\* addLabel; a failed addLabels is caught, false
classifyAndLabelPR_label ==
    /\ pc = "prAddLabel"
    /\ LET matchedLabel == validateClassification(classification, labelsList)
       IN  \E ok \in BOOLEAN :
              log' = IF Truthy(matchedLabel)
                     THEN Append(log, [op |-> "addLabels", arg |-> "label",
                                       ok |-> ok, on |-> number,
                                       label |-> matchedLabel])
                     ELSE log
    /\ Settle("resolved")
    /\ UNCHANGED <<inputs, template, invoked, returned, fetched, verdicts, classification, readmeAnswer,
                   analysis, batch, result>>

----------------------------------------------------------------------------

Next ==
    \/ loadConfig
    \/ run
    \/ executeApiCalls_issue
    \/ executeApiCalls_return
    \/ handleNewIssue_blacklist
    \/ handleNewIssue_getReadme
    \/ handleNewIssue_getPinned
    \/ analyzeIssue_detectSpam
    \/ analyzeIssue_checkReadmeCoverage
    \/ handleNewIssue_decided
    \/ handleReadmeRelatedIssue_generate
    \/ handleReadmeRelatedIssue_answer
    \/ classifyAndHandleIssue_classify
    \/ classifyAndHandleIssue_label
    \/ classifyAndHandleIssue_quality
    \/ classifyAndHandleIssue_unclear
    \/ classifyAndHandleIssue_basic
    \/ handleNewPR_blacklist
    \/ handleNewPR_analyzeFileChanges
    \/ analyzePR_detectPRSpam
    \/ analyzePR_checkPRCommitCompliance
    \/ analyzePR_checkPRQuality
    \/ handleNewPR_decided
    \/ classifyAndLabelPR_classify
    \/ classifyAndLabelPR_label

Spec == Init /\ [][Next]_vars

\* One run on one event, with a config.json that lacks one prompt
InitConfig ==
    /\ \E e \in Events : eventName = e[1] /\ eventAction = e[2]
    /\ author \in Authors
    /\ blacklistUsers \in Blacklists
    /\ labelsList \in LabelLists
    /\ analyzeChanges \in BOOLEAN
    /\ missingPrompt \in Prompts
    /\ number = 1
    /\ issueBody \in IF eventName = "issues" THEN IssueBodies ELSE {<<>>}
    /\ other = NoRun
    /\ pc = "load"
    /\ Start

SpecConfig == InitConfig /\ [][Next]_vars

----------------------------------------------------------------------------
(* Two requests handled by one process *)

\* The request being executed: its payload, inputs and locals
Current ==
    [eventName |-> eventName,
     eventAction |-> eventAction,
     author |-> author,
     blacklistUsers |-> blacklistUsers,
     labelsList |-> labelsList,
     analyzeChanges |-> analyzeChanges,
     missingPrompt |-> missingPrompt,
     number |-> number,
     issueBody |-> issueBody,
     headers |-> headers,
     pc |-> pc,
     log |-> log,
     readmeContent |-> readmeContent,
     pinnedIssuesContent |-> pinnedIssuesContent,
     spamResult |-> spamResult,
     coverageResult |-> coverageResult,
     commitResult |-> commitResult,
     qualityResult |-> qualityResult,
     classification |-> classification,
     readmeAnswer |-> readmeAnswer,
     decision |-> decision,
     step |-> step,
     calls |-> calls,
     results |-> results,
     pending |-> pending,
     result |-> result,
     outcome |-> outcome]

\* A request that has not been started: the locals of Start
Waiting(login, no, body) ==
    [eventName |-> "issues", eventAction |-> "opened", author |-> login,
     blacklistUsers |-> blacklistUsers,
     labelsList |-> << <<"b","u","g">>, <<"e","n","h","a","n","c","e","m","e","n","t">>, <<"q","u","e","s","t","i","o","n">> >>,
     analyzeChanges |-> TRUE, missingPrompt |-> "none", number |-> no,
     issueBody |-> body, headers |-> Unset, pc |-> "load", log |-> <<>>,
     readmeContent |-> Unset, pinnedIssuesContent |-> Unset,
     spamResult |-> Unset, coverageResult |-> Unset, commitResult |-> Unset,
     qualityResult |-> Unset, classification |-> Unset,
     readmeAnswer |-> Unset, decision |-> "none", step |-> 0,
     calls |-> <<>>, results |-> <<>>, pending |-> NoCall,
     result |-> "none", outcome |-> "running"]

\* The process goes on with the other request: the one being executed is
\* suspended in an await, or its handler has returned. The awaits are
\* those of handleNewIssue around its call of analyzeIssueQuality, the
\* one use the pipeline makes of module-level objects that carry a
\* writable field (the lastIndex of the TEMPLATE_PATTERNS): before the
\* run starts, in getReadmeContent, in getPinnedIssuesContent and in
\* performLayeredDetection. Past that await every step reads and writes
\* the request's own locals only, so that the order of the remaining
\* steps makes no difference.
Switch ==
    /\ other # NoRun
    /\ \/ pc = "done"
       \/ pc \in {"load", "getReadme", "getPinned", "detectSpam"}
    /\ other' = IF pc = "done" THEN NoRun ELSE Current
    /\ eventName' = other.eventName
    /\ eventAction' = other.eventAction
    /\ author' = other.author
    /\ blacklistUsers' = other.blacklistUsers
    /\ labelsList' = other.labelsList
    /\ analyzeChanges' = other.analyzeChanges
    /\ missingPrompt' = other.missingPrompt
    /\ number' = other.number
    /\ issueBody' = other.issueBody
    /\ headers' = other.headers
    /\ pc' = other.pc
    /\ log' = other.log
    /\ readmeContent' = other.readmeContent
    /\ pinnedIssuesContent' = other.pinnedIssuesContent
    /\ spamResult' = other.spamResult
    /\ coverageResult' = other.coverageResult
    /\ commitResult' = other.commitResult
    /\ qualityResult' = other.qualityResult
    /\ classification' = other.classification
    /\ readmeAnswer' = other.readmeAnswer
    /\ decision' = other.decision
    /\ step' = other.step
    /\ calls' = other.calls
    /\ results' = other.results
    /\ pending' = other.pending
    /\ result' = other.result
    /\ outcome' = other.outcome
    /\ UNCHANGED <<lastIndex, invoked, returned>>

\* An issue is opened, and while it is handled a second issue is opened,
\* by the same author or by a blacklisted one
InitPair ==
    /\ eventName = "issues" /\ eventAction = "opened"
    /\ author = <<"b","o","b">>
    /\ blacklistUsers = parseBlacklist(<<" ","E","V","E"," ",",">>)
    /\ labelsList = << <<"b","u","g">>, <<"e","n","h","a","n","c","e","m","e","n","t">>, <<"q","u","e","s","t","i","o","n">> >>
    /\ analyzeChanges = TRUE
    /\ missingPrompt = "none"
    /\ number = 1
    /\ issueBody \in IssueBodies
    /\ \E login \in {<<"b","o","b">>, <<"E","v","e">>}, body \in IssueBodies :
          other = Waiting(login, 2, body)
    /\ pc = "load"
    /\ Start

NextPair ==
    \/ loadConfig
    \/ run
    \/ executeApiCalls_issue
    \/ executeApiCalls_return
    \/ handleNewIssue_blacklist
    \/ handleNewIssue_getReadme
    \/ handleNewIssue_getPinned
    \/ analyzeIssue_detectSpam
    \/ analyzeIssue_checkReadmeCoverage
    \/ handleNewIssue_decided
    \/ handleReadmeRelatedIssue_generate
    \/ handleReadmeRelatedIssue_answer
    \/ classifyAndHandleIssue_classify
    \/ classifyAndHandleIssue_label
    \/ classifyAndHandleIssue_quality
    \/ classifyAndHandleIssue_unclear
    \/ classifyAndHandleIssue_basic
    \/ Switch

SpecPair == InitPair /\ [][NextPair]_vars

----------------------------------------------------------------------------
(* The helper functions, each evaluated on its own on drawn arguments *)

\* Answers of the classification oracle handed to validateClassification
PureAnswers == {<<"B","U","G">>, <<"b","u","g","f","i","x"," ","p","l","e","a","s","e">>, <<"x","y","z">>, <<>>, <<" ">>,
                <<" ","B","u","g"," ">>, <<"E","n","h","a","n","c","e","m","e","n","t">>, <<"u","r","g","e","n","t">>, <<"a"," ","b","u","g",","," ","a"," ","q","u","e","s","t","i","o","n">>}
\* Label lists handed to validateClassification
PureLabelLists == LabelLists \cup
                  {<< <<"b","u","g">> >>, << <<"b","u","g">>, <<"e","n","h","a","n","c","e","m","e","n","t">> >>,
                   << <<"B","u","g">>, <<"b","u","g">> >>}

\* A helper function is about to be evaluated on args; no run is going on
Evaluation(args) ==
    /\ invoked = args
    /\ returned = Unset
    /\ pc = "call"
    /\ eventName = "none" /\ eventAction = "none"
    /\ author = <<>> /\ blacklistUsers = <<>> /\ labelsList = <<>>
    /\ analyzeChanges = FALSE
    /\ missingPrompt = "none"
    /\ number = 0 /\ issueBody = <<>> /\ other = NoRun
    /\ lastIndex = [k \in 1..8 |-> 0]
    /\ headers = Unset
    /\ log = <<>>
    /\ readmeContent = Unset
    /\ pinnedIssuesContent = Unset
    /\ spamResult = Unset
    /\ coverageResult = Unset
    /\ commitResult = Unset
    /\ qualityResult = Unset
    /\ classification = Unset
    /\ readmeAnswer = Unset
    /\ decision = "none"
    /\ step = 0
    /\ calls = <<>>
    /\ results = <<>>
    /\ pending = NoCall
    /\ result = "none"
    /\ outcome = "running"

\* The function returns v
Return(v) ==
    /\ returned' = v
    /\ pc' = "returned"
    /\ UNCHANGED <<inputs, template, invoked, log, fetched, verdicts,
                   classification, readmeAnswer, analysis, batch, result,
                   outcome>>

\* Pull request titles handed to isValidCommitTitle
PureTitles == {<<"f","i","x",":"," ","c","o","r","r","e","c","t"," ","n","u","l","l"," ","c","h","e","c","k">>, <<"F","E","A","T","(","a","p","i",")",":"," ","x">>,
               <<"u","p","d","a","t","e"," ","s","t","u","f","f">>, <<"f","i","x",":">>, <<"f","i","x",":","x">>, <<"f","i","x","(",")",":"," ","x">>,
               <<"f","e","a","t","u","r","e",":"," ","x">>, <<" "," ","D","o","c","s",":"," ","r","e","a","d","m","e"," ","\n">>, <<"f","i","x",":"," "," ","x">>,
               <<"f","i","x","(","a",")","(","b",")",":"," ","y">>, <<"f","i","x","(","(","a",")",")",":"," ","y">>, <<"f","i","x"," ","(","a",")",":"," ","y">>,
               <<"f","i","x","(","a",":"," ","y">>, <<"f","i","x","e","s",":"," ","x">>, <<"c","i",":"," ","x">>, <<"R","e","v","e","r","t","(","x",")",":"," ","y">>,
               <<"f","i","x",":"," ","a","\n","b">>, <<"f","i","x","(","a","\n","b",")",":"," ","c">>, <<"f","i","x",":"," ">>, <<"f","i","x","!",":"," ","x">>,
               <<"a"," ","f","i","x",":"," ","x">>, <<>>, <<"c","h","o","r","e","(","d","e","p","s",")",":"," ","b","u","m","p"," ","x">>}

\* The largest number of files in a drawn diff
MaxFiles == 7
\* file.patch of the files of a diff; '' when GitHub sends none
Patches == << <<>>,
              <<"@","@"," ","-","1"," ","+","1"," ","@","@","\n","-","a","\n","+","b">>,
              <<"@","@"," ","-","1",",","7"," ","+","1",",","7"," ","@","@","\n"," ","c","\n","+","x","\n"," ","d","\n","-","y","\n","+","z","\n"," ","e","\n","+","w">>,
              <<"@","@"," ","-","1"," ","+","1"," ","@","@","\n"," ","c">>,
              <<"@","@"," ","-","0",",","0"," ","+","1",",","6"," ","@","@","\n","+","1","\n","+","2","\n","+","3","\n","+","4","\n","+","5","\n","+","6">>,
              <<"@","@"," ","-","1"," ","+","1"," ","@","@","\n","+","a","\n","\\"," ","N","o"," ","n","e","w","l","i","n","e"," ","a","t"," ","e","n","d"," ","o","f"," ","f","i","l","e">>,
              <<"@","@"," ","-","3"," ","+","0"," ","@","@","\n","-","-","-","\n","-","\n","+">> >>
Statuses == << <<"a","d","d","e","d">>, <<"m","o","d","i","f","i","e","d">>, <<"r","e","m","o","v","e","d">> >>
\* The i-th file of the listFiles response
File(i) == [filename  |-> <<"f">> \o NumberToString(i) \o <<".","j","s">>,
            status    |-> Statuses[(i % 3) + 1],
            additions |-> i,
            deletions |-> 10 + i,
            patch     |-> Patches[((i - 1) % Len(Patches)) + 1]]
\* listFiles responses: the diffs of 0..MaxFiles files
Diffs == {[i \in 1..t |-> File(i)] : t \in 0..MaxFiles}
\* depthConfig.max_files, depthConfig.max_lines: the presets light,
\* normal and deep, other values, and 0 for a preset without the key
FileCaps == {0, 1, 3, 5, 10}
LineCaps == {0, 1, 3, 5, 10}

\* n more lines of plain text
RECURSIVE Filler(_)
Filler(n) == IF n = 0 THEN <<>> ELSE <<"\n", "a">> \o Filler(n - 1)

\* Issue titles and bodies handed to detectTemplate
DetectTitles == {<<"[","B","U","G","]"," ","c","r","a","s","h">>, <<"c","r","a","s","h"," ","o","n"," ","s","t","a","r","t">>, <<"[","b","u","g","]"," ","f","e","a","t","u","r","e">>}
DetectBodies == {<<>>,
                 <<"i","t"," ","c","r","a","s","h","e","s">>,
                 <<"#","#","#"," ","D","e","s","c","r","i","p","t","i","o","n","\n","i","t"," ","c","r","a","s","h","e","s">>,
                 <<"#","#"," ","S","t","e","p","s","\n","-"," ","[","x","]"," ","s","e","a","r","c","h","e","d","\n","-"," ","["," ","]"," ","o","t","h","e","r">>,
                 <<"*","*","V","e","r","s","i","o","n","*","*"," ","1",".","2","\n","<","!","-","-"," ","f","i","l","l"," ","i","n"," ","-","-",">">>,
                 <<">"," ","q","u","o","t","e","d","\n",">","\n",">"," ","m","o","r","e">>,
                 <<">","\n","\n","f","o","o">>,
                 <<">"," ","\n">>,
                 <<"|"," ","a"," ","|"," ","b"," ","|","\n","|","-","-","-","|","-","-","-","|","\n","|"," ","c"," ","|"," ","d"," ","|">>,
                 <<"|"," ","a"," ","|","\n","|"," ","b"," ","|","\n","|"," ","c"," ","|">>,
                 <<"a"," ","|"," ","b">>,
                 <<"*","*","*","*","*","\n","*","*","*","*">>,
                 <<"-","\n","[","x","]"," ","o","d","d","\n"," "," ","-"," ","["," ","]"," ","o","k","\n","-"," ","[","X","]"," ","n","o">>,
                 <<"D","e","s","c","r","i","p","t","i","o","n"," ","o","f"," ","t","h","e"," ","b","u","g","\n","e","n","v","i","r","o","n","m","e","n","t",":"," ","l","i","n","u","x">>,
                 <<"t","h","e"," ","v","e","r","s","i","o","n">>,
                 <<"<","!","-","-","-","-",">","\n","<","!","-","-"," ","a"," ","-","-",">"," ","<","!","-","-"," ","b"," ","-","-",">">>,
                 <<"#","#","#","#"," ","D","e","e","p","\n","#","#","n","o","n","e","\n","#","#"," ">>,
                 <<"a">> \o Filler(5),
                 <<"#","#"," ","h">> \o Filler(15),
                 <<"#","#"," ","h">> \o Filler(16),
                 <<"-"," ","[","x","]"," ","a","\n","-"," ","[","x","]"," ","b","\n","-"," ","[","x","]"," ","c">> \o Filler(47),
                 <<"-"," ","[","x","]"," ","a","\n","-"," ","[","x","]"," ","b","\n","-"," ","[","x","]"," ","c">> \o Filler(46),
                 <<"a","\n","b","\n","c","\n","d","\n","e">>,
                 <<"f","e","a","t","u","r","e","\n","#","#","#"," ","x","\n","#","#","#"," ","y">>,
                 <<"\n","\n","\n","\n","\n","\n","\n","\n","\n","\n">>,
                 <<"b","u","g","u63cf","u8ff0">>, <<"u63cf","u8ff0">>, <<"v","e","r","s","i","o","n">>,
                 <<"V","e","r","s","i","o","n"," ","o","f"," ","t","h","e"," ","b","r","o","w","s","e","r">>}

\* Issue titles and bodies handed to analyzeIssueQuality
QualityTitles ==
    {<<"S","h","o","r","t">>,
     <<"T","h","i","s"," ","i","s"," ","a"," ","l","o","n","g"," ","e","n","o","u","g","h"," ","t","i","t","l","e">>,
     <<" "," "," ","p","a","d","d","e","d"," "," "," ">>,
     <<>>,
     <<"e","l","e","v","e","n","c","h","a","r","s">>,
     <<"t","e","n","c","h","a","r","s","x","x">>}
QualityBodies ==
    {<<>>,
     <<" "," "," ">>,
     <<"i","t"," ","c","r","a","s","h","e","s">>,
     <<"i","t"," ","c","r","a","s","h","e","s","!">>,
     <<"i","t"," ","c","r","a","s","h","e","s"," "," "," "," "," "," "," "," "," "," "," "," "," "," "," "," "," "," "," "," "," "," "," "," "," "," "," "," "," "," "," "," "," "," "," "," "," "," "," "," "," "," "," "," "," ">>,
     <<"a","a","a","a","a","a","a","a","a","a","a","a","a","a","a","a","a","a","a","a","a","a","a","a","a","a","a","a","a","a","a","a","a","a","a","a","a","a","a","a","a","a","a","a","a","a","a","a","a","a","b">>,
     <<"a","a","a","a","a","a","a","a","a","a","a","a","a","a","a","a","a","a","a","a","a","a","a","a","a","a","a","a","a","a","a","a","a","a","a","a","a","a","a","a","a","a","a","a","a","a","a","a","a","a">>,
     <<" "," ","a","a","a","a","a","a","a","a","a","a","a","a","a","a","a","a","a","a","a","a","a","a","a","a","a","a","a","a","a","a","a","a","a","a","a","a","a","a","a","a","a","a","a","a","a","a","a","a","a","a","\n">>,
     <<"#","#","#"," ","S","t","e","p","s","\n","o","p","e","n"," ","t","h","e"," ","a","p","p","\n","#","#","#"," ","R","e","s","u","l","t","\n","i","t"," ","c","r","a","s","h","e","s">>,
     <<"#","#","#"," ","S","t","e","p","s","\n","o","p","e","n"," ","t","h","e"," ","a","p","p">>,
     <<"#","#","#"," ","S","t","e","p","s","\n","N","/","A","\n","#","#","#"," ","R","e","s","u","l","t","\n","i","t"," ","c","r","a","s","h","e","s">>,
     <<"#","#","#"," ","S","t","e","p","s","\n","_","N","o"," ","r","e","s","p","o","n","s","e","_">>,
     <<"#","#","#"," ","S","t","e","p","s","\n","_","n","o"," ","r","e","s","p","o","n","s","e","_","\n","#","#","#"," ","R","e","s","u","l","t","\n","N","o","n","e","\n","#","#","#"," ","M","o","r","e","\n"," ","\n">>,
     <<"#","#","#"," ","S","t","e","p","s","\n","?","?","?">>,
     <<"#","#","#"," ","S","t","e","p","s","\n","a"," ","["," ","]"," ","b">>,
     <<"#","#","#"," ","S","t","e","p","s","\n","a"," ","[","x","]"," ","b">>,
     <<"#","#","#"," ","S","t","e","p","s","\n",".",".",".",".","\n","#","#"," ","R","e","s","u","l","t","\n","-","-","-","-","\n","#","#"," ","M","o","r","e","\n","a","b">>,
     <<"#","#","#"," ","S","t","e","p","s","\n","a","b","_","c","\n","*","*","R","e","s","u","l","t","*","*","\n","|"," ","o","k"," ","|">>,
     <<"i","n","t","r","o","\n","#","#","#"," ","\n","l","o","s","t"," ","t","e","x","t","\n","#","#"," ","K","e","p","t","\n","s","o","m","e"," ","t","e","x","t">>,
     <<"#","#","#"," ","S","t","e","p","s","\n","N","/","A","\n","b","u","t"," ","i","t"," ","c","r","a","s","h","e","s">>,
     <<">"," ","q","u","o","t","e","d","\n","p","l","a","i","n"," ","t","e","x","t","\n","-"," ","[","x","]"," ","d","o","n","e","\n","m","o","r","e","\n","-"," ","["," ","]"," ","t","o","d","o">>,
     <<"#","#","#"," ","u63cf","u8ff0","\n","u65e0","\n","#","#","#"," ","u7248","u672c","\n","u6682","u65e0">>,
     <<"#","#","#"," ","A","\n","o","n","e","\n","#","#","#"," ","B","\n","t","w","o","\n","#","#","#"," ","C","\n","-">>}

InitPure ==
    \/ \E title \in QualityTitles, body \in QualityBodies :
          Evaluation([fn |-> "analyzeIssueQuality", issueTitle |-> title,
                      issueBody |-> body])
    \/ \E title \in DetectTitles, body \in DetectBodies :
          Evaluation([fn |-> "detectTemplate", issueTitle |-> title,
                      issueBody |-> body])
    \/ \E data \in Diffs, maxFiles \in FileCaps, maxLines \in LineCaps :
          Evaluation([fn |-> "analyzeFileChanges", data |-> data,
                      max_files_to_analyze |-> maxFiles,
                      max_patch_lines_per_file |-> maxLines])
    \/ \E title \in PureTitles :
          Evaluation([fn |-> "isValidCommitTitle", title |-> title])
    \/ \E c \in PureAnswers, labels \in PureLabelLists :
          Evaluation([fn |-> "validateClassification",
                      classification |-> c, labelsList |-> labels])

call_validateClassification ==
    /\ pc = "call"
    /\ invoked.fn = "validateClassification"
    /\ Return(validateClassification(invoked.classification,
                                     invoked.labelsList))

call_isValidCommitTitle ==
    /\ pc = "call"
    /\ invoked.fn = "isValidCommitTitle"
    /\ Return(isValidCommitTitle(invoked.title))

call_analyzeFileChanges ==
    /\ pc = "call"
    /\ invoked.fn = "analyzeFileChanges"
    /\ Return(analyzeFileChanges(invoked.data, invoked.max_files_to_analyze,
                                 invoked.max_patch_lines_per_file))

call_detectTemplate ==
    /\ pc = "call"
    /\ invoked.fn = "detectTemplate"
    /\ Return(detectTemplate(invoked.issueTitle, invoked.issueBody))

\* The expressions are shared as the module loads them
call_analyzeIssueQuality ==
    /\ pc = "call"
    /\ invoked.fn = "analyzeIssueQuality"
    /\ Return(analyzeIssueQuality(invoked.issueTitle, invoked.issueBody,
                                  lastIndex))

NextPure ==
    \/ call_analyzeIssueQuality
    \/ call_detectTemplate
    \/ call_analyzeFileChanges
    \/ call_isValidCommitTitle
    \/ call_validateClassification

SpecPure == InitPure /\ [][NextPure]_vars

----------------------------------------------------------------------------
(* Claims *)

IsIssueRun == eventName = "issues" /\ eventAction = "opened"
IsPRRun    == eventName = "pull_request_target" /\ eventAction = "opened"

IsOracle(e) == e.op = "oracle"
\* The purposes of the oracle calls made so far, in order
OracleSeq ==
    LET os == SelectSeq(log, IsOracle) IN [i \in 1..Len(os) |-> os[i].arg]
IsPrefix(a, b) == Len(a) <= Len(b) /\ SubSeq(b, 1, Len(a)) = a
FailedOracle == {i \in OracleCalls : ~log[i].ok}

\* C1: in an issue run whose stage-1 oracle answered SPAM, no coverage,
\* answer, classification or quality oracle call is ever made, and the
\* decision is SPAM, attributed to step 1.
C1_SpamShortCircuits ==
    (IsIssueRun /\ spamResult = SPAM) =>
        /\ OracleSeq = <<"spam">>
        /\ decision = "SPAM"
        /\ step = 1

C1_Witness ==
    /\ IsIssueRun /\ spamResult = SPAM /\ pc = "done"
    /\ Len(results) = 3

\* C2: in an issue run the coverage oracle is called only when the README
\* text or the pinned-issues text is non-empty; once stage 2 has run, it has
\* been called exactly once in that case, and with both texts empty it has
\* not been called and the verdict is NOT_COVERED.
C2_CoverageOracleOnlyWithContext ==
    LET n == Cardinality(LoggedArg("oracle", "coverage"))
        stage2Ran == coverageResult # Unset \/ n > 0
    IN  IsIssueRun =>
          /\ n > 0 => (Truthy(readmeContent) \/ Truthy(pinnedIssuesContent))
          /\ stage2Ran =>
                IF ~Truthy(readmeContent) /\ ~Truthy(pinnedIssuesContent)
                THEN n = 0 /\ coverageResult = NOT_COVERED
                ELSE n = 1

C2_Witness ==
    /\ IsIssueRun /\ pc = "done"
    /\ readmeContent = <<>> /\ pinnedIssuesContent = <<>>
    /\ coverageResult = NOT_COVERED
    /\ OracleSeq = <<"spam", "classify">>

\* C3: in a PR run the oracle-backed stages run in the order spam, commit
\* compliance, quality, classification; after a terminal verdict (SPAM,
\* INVALID, MALICIOUS, TRIVIAL) no later stage is run, and a title that
\* fails compliance ends with decision INVALID_COMMIT without the quality
\* oracle being called.
C3_PRStagesInOrder ==
    IsPRRun =>
        /\ IsPrefix(OracleSeq, <<"pr_spam", "pr_commit", "pr_quality",
                                 "pr_classify">>)
        /\ spamResult = SPAM =>
              OracleSeq = <<"pr_spam">> /\ decision = "SPAM"
        /\ commitResult = INVALID =>
              /\ OracleSeq = <<"pr_spam", "pr_commit">>
              /\ decision = "INVALID_COMMIT"
        /\ qualityResult \in {MALICIOUS, TRIVIAL} =>
              /\ OracleSeq = <<"pr_spam", "pr_commit", "pr_quality">>
              /\ decision = PRQualityDecision(qualityResult)

C3_Witness ==
    /\ IsPRRun /\ pc = "done"
    /\ commitResult = INVALID /\ decision = "INVALID_COMMIT"
    /\ Len(results) = 3

\* C4 (as stated): the commit-compliance stage makes no oracle call, so a
\* PR run that ends at stage 2 has made exactly one oracle call.
C4_Original ==
    (IsPRRun /\ decision = "INVALID_COMMIT") => Cardinality(OracleCalls) = 1

\* C4 (amended): the commit-compliance stage asks the oracle once; the
\* decision is INVALID_COMMIT exactly when the normalised answer is INVALID,
\* and a PR run that ends at stage 2 has made exactly two oracle calls, the
\* spam check and the compliance check.
C4_CommitStageAsksOracle ==
    IsPRRun =>
        /\ (decision = "INVALID_COMMIT") <=> (commitResult = INVALID)
        /\ commitResult # Unset =>
              Cardinality(LoggedArg("oracle", "pr_commit")) = 1
        /\ decision = "INVALID_COMMIT" =>
              OracleSeq = <<"pr_spam", "pr_commit">>

C4_Witness ==
    /\ IsPRRun /\ decision = "INVALID_COMMIT"
    /\ Cardinality(OracleCalls) = 2
    /\ pc = "decided"

IsSideEffect(e) == e.op \in SideEffectOps
\* The side-effecting calls made so far, in order, as <<op, arg>>
Effects ==
    LET es == SelectSeq(log, IsSideEffect)
    IN  [i \in 1..Len(es) |-> <<es[i].op, es[i].arg>>]

\* C5: in an issue run decided README_COVERED no lock call is ever issued;
\* the answer comment is posted only after the answer oracle returned, and
\* when the answer was generated and posted the run ends having issued
\* exactly: the answer comment, the closing comment, the close call.
C5_ReadmeCoveredAnswersAndCloses ==
    (IsIssueRun /\ decision = "README_COVERED") =>
        /\ Logged("lock") = {}
        /\ \A i \in LoggedArg("comment", "readme_answer") :
              \E j \in LoggedArg("oracle", "answer") : j < i /\ log[j].ok
        /\ ( /\ pc = "done"
             /\ \E j \in LoggedArg("oracle", "answer") : log[j].ok
             /\ \E i \in LoggedArg("comment", "readme_answer") : log[i].ok )
           => Effects = << <<"comment", "readme_answer">>,
                           <<"comment", "issue_readme_covered">>,
                           <<"close", "issue">> >>

C5_Witness ==
    /\ IsIssueRun /\ decision = "README_COVERED" /\ pc = "done"
    /\ results = <<TRUE, TRUE>>

\* C6: inside closeIssue / closePR the calls are issued one at a time in
\* the order comment, close, lock: the close call is in flight only after
\* the comment call has returned, the lock call only after the close call
\* has returned, and an issue decided SPAM ends with comment, close, lock.
C6_CommentCloseLockOrder ==
    /\ pending.op = "comment" => results = <<>>
    /\ pending.op = "close" =>
          Len(results) = 1 /\ log[Len(log)].op = "comment"
    /\ pending.op = "lock" =>
          Len(results) = 2 /\ log[Len(log)].op = "close"
    /\ \A i \in Logged("close") : i > 1 /\ log[i - 1].op = "comment"
    /\ \A i \in Logged("lock")  : i > 1 /\ log[i - 1].op = "close"
    /\ (IsIssueRun /\ decision = "SPAM" /\ pc = "done") =>
          Effects = << <<"comment", "issue_spam">>, <<"close", "issue">>,
                       <<"lock", "issue">> >>

C6_Witness ==
    /\ IsIssueRun /\ decision = "SPAM"
    /\ pending.op = "lock" /\ results = <<FALSE, TRUE>>

\* C7 (as stated): in every terminal action a failed call does not prevent
\* the calls after it: once the run has ended, every comment of a terminal
\* action is followed by the close attempt, and every close of an action
\* that locks is followed by the lock attempt.
C7_Original ==
    pc = "done" =>
        /\ \A i \in Logged("comment") :
              \E j \in Logged("close") : j > i
        /\ \A i \in Logged("close") :
              (decision # "README_COVERED") => \E j \in Logged("lock") : j > i

\* C8 (as stated): whichever oracle call fails, the handler rejects.
C8_Original ==
    (pc = "done" /\ FailedOracle # {}) => outcome = "rejected"

DetectionOracles == {"spam", "coverage", "pr_spam", "pr_commit", "pr_quality"}
CaughtOracles    == {"answer", "classify", "quality", "pr_classify"}

\* C8 (amended): a failed oracle call is the last call of the run.  When it
\* is a detection call (issue spam, coverage; PR spam, commit, quality) the
\* handler rejects; when it is the answer, classification or quality call
\* of an issue or the classification call of a PR, the error is caught and
\* the handler resolves.
C8_OracleFailureEndsRun ==
    \A i \in FailedOracle :
        /\ i = Len(log)
        /\ pc = "done"
        /\ log[i].arg \in DetectionOracles \cup CaughtOracles
        /\ outcome = IF log[i].arg \in DetectionOracles
                     THEN "rejected" ELSE "resolved"

C8_Witness ==
    /\ pc = "done" /\ outcome = "resolved"
    /\ \E i \in FailedOracle : log[i].arg = "quality"

TerminalReached ==
    \/ decision \in {"SPAM", "README_COVERED", "INVALID_COMMIT",
                     "MALICIOUS", "TRIVIAL"}
    \/ IsIssueRun /\ qualityResult = BASIC

BugLike(label) ==
    \/ includes(toLowerCase(label), <<"b","u","g">>)
    \/ includes(toLowerCase(label), <<"e","r","r","o","r">>)
    \/ includes(toLowerCase(label), <<"f","i","x">>)

C10_Original ==
    (pc = "done" /\ \E i \in 1..Len(results) :
                        ~results[i] /\ \A j \in 1..Len(results) :
                                           j # i => results[j])
        => outcome # "resolved"

QualityCalls == LoggedArg("oracle", "quality")
\* The issue run has gone past the labelling of classifyAndHandleIssue
LabelStepDone ==
    classification # Unset /\ pc \in {"quality", "unclear", "basic", "done"}

\* C11 (as stated): in an issue run the quality oracle is invoked only
\* when the label resolved for the issue is bug-like; it is never invoked
\* when the answer resolves to no label.
C11_Original ==
    IsIssueRun =>
        \A i \in QualityCalls :
            BugLike(IssueMatchedLabel(classification, labelsList))

\* C11 (amended): in an issue run the quality oracle is invoked exactly
\* when the normalised classification answer itself contains bug, error or
\* fix, whether or not a label was resolved from it; a bug-like resolved
\* label implies a bug-like answer, and an answer that is not bug-like
\* never leads to a quality call.
C11_QualityOnBugLikeAnswer ==
    IsIssueRun =>
        /\ QualityCalls # {} => BugLike(classification)
        /\ pc = "quality" => BugLike(classification)
        /\ (LabelStepDone /\ pc # "quality" /\ BugLike(classification))
              => Cardinality(QualityCalls) = 1
        /\ (LabelStepDone /\ ~BugLike(classification)) => QualityCalls = {}
        /\ (LabelStepDone
            /\ BugLike(IssueMatchedLabel(classification, labelsList)))
              => BugLike(classification)

C11_Witness ==
    /\ IsIssueRun /\ pc = "done"
    /\ QualityCalls # {}
    /\ IssueMatchedLabel(classification, labelsList) = <<>>
    /\ labelsList # <<>>

\* C12 (as stated): an issue run whose quality oracle answered BASIC ends
\* with the "search first" comment, the close call and the lock call all
\* issued.
C12_Original ==
    (IsIssueRun /\ qualityResult = BASIC /\ pc = "done") =>
        /\ LoggedArg("comment", "issue_basic") # {}
        /\ Logged("close") # {}
        /\ Logged("lock") # {}

\* C13 (as stated): an issue run whose quality oracle answered UNCLEAR
\* ends with no close or lock call and with exactly one comment posted.
C13_Original ==
    (IsIssueRun /\ qualityResult = UNCLEAR /\ pc = "done") =>
        /\ Logged("close") = {}
        /\ Logged("lock") = {}
        /\ Cardinality(Logged("comment")) = 1

\* The label the classification stage resolves from the model answer
ResolvedLabel ==
    IF IsIssueRun THEN IssueMatchedLabel(classification, labelsList)
    ELSE validateClassification(classification, labelsList)

AddedLabels == {log[i].label : i \in Logged("addLabels")}

\* The rules of the resolver, applied to the answer and the label list of
\* this run: the positions of the labels that satisfy rule 1, 2 and 3
ExactHits ==
    {i \in 1..Len(labelsList) :
        toLowerCase(labelsList[i]) = trim(toLowerCase(classification))}
ContainHits ==
    {i \in 1..Len(labelsList) :
        includes(toLowerCase(classification), toLowerCase(labelsList[i]))}
WithinHits ==
    {i \in 1..Len(labelsList) :
        includes(toLowerCase(labelsList[i]), trim(toLowerCase(classification)))}
First(hits) == labelsList[CHOOSE i \in hits : \A j \in hits : i <= j]
\* What rules 1-3, tried in this order over the whole list, resolve to
Rules123 ==
    IF ExactHits # {} THEN {First(ExactHits)}
    ELSE IF ContainHits # {} THEN {First(ContainHits)}
    ELSE IF WithinHits # {} THEN {First(WithinHits)}
    ELSE {}

\* C15 (as stated): the label added to an issue is exactly what the
\* resolver (rules 1-3) yields for the answer and the label list.
C15_Original ==
    (IsIssueRun /\ LabelStepDone) => AddedLabels = Rules123

\* C16 (as stated): a PR run whose quality oracle answered UNCLEAR issues
\* no comment, close or lock call and adds no label.
C16_Original ==
    (IsPRRun /\ qualityResult = UNCLEAR) =>
        /\ Logged("comment") = {} /\ Logged("close") = {}
        /\ Logged("lock") = {}
        /\ Logged("addLabels") = {}

\* C16 (amended): a PR run whose quality oracle answered UNCLEAR has
\* decision UNCLEAR and issues no comment, close or lock call; it is then
\* classified like a valid PR: when the label list is not empty the
\* classification oracle is asked, and the label resolved from its answer,
\* if any, is added.
C16_UnclearPRStaysOpenAndIsClassified ==
    (IsPRRun /\ qualityResult = UNCLEAR) =>
        /\ decision = "UNCLEAR"
        /\ Logged("comment") = {} /\ Logged("close") = {}
        /\ Logged("lock") = {}
        /\ pending = NoCall /\ calls = <<>>
        /\ pc = "done" =>
              /\ (Len(labelsList) > 0)
                    <=> (LoggedArg("oracle", "pr_classify") # {})
              /\ classification # Unset => AddedLabels = Rules123

C16_Witness ==
    /\ IsPRRun /\ qualityResult = UNCLEAR /\ pc = "done"
    /\ Logged("addLabels") # {}

\* C17: a PR run whose quality oracle answered MALICIOUS or TRIVIAL has
\* that verdict as its decision, never asks the classification oracle and
\* never adds a label, and ends having issued exactly the comment for that
\* verdict, the close call and the lock call.
C17_LowQualityPRClosedAndLocked ==
    (IsPRRun /\ qualityResult \in {MALICIOUS, TRIVIAL}) =>
        /\ decision = (IF qualityResult = MALICIOUS
                       THEN "MALICIOUS" ELSE "TRIVIAL")
        /\ LoggedArg("oracle", "pr_classify") = {}
        /\ Logged("addLabels") = {}
        /\ pc = "done" =>
              Effects = << <<"comment", IF qualityResult = MALICIOUS
                                        THEN "pr_malicious" ELSE "pr_trivial">>,
                           <<"close", "pr">>, <<"lock", "pr">> >>

C17_Witness ==
    /\ IsPRRun /\ qualityResult = MALICIOUS /\ pc = "done"
    /\ labelsList # <<>>
    /\ Len(results) = 3

BUGFIX == <<"B","U","G","F","I","X">>
BugfixUrgentFirst ==
    /\ Len(labelsList) = 2
    /\ labelsList[2] = <<"b","u","g">>
    /\ includes(labelsList[1], <<"b","u","g","f","i","x">>)

\* C19: in a PR run that has classified, the label added is the one rules
\* 1, 2, 3 yield when each is tried over the whole label list before the
\* next (no label when all three fail); answer "bugfix" with the labels
\* bugfix-urgent, bug yields bug.
C19_RulesInOrder ==
    (IsPRRun /\ pc = "done" /\ classification # Unset) =>
        /\ AddedLabels = Rules123
        /\ (classification = BUGFIX /\ BugfixUrgentFirst)
              => AddedLabels = {<<"b","u","g">>}

C19_Witness ==
    /\ IsPRRun /\ pc = "done"
    /\ classification = BUGFIX /\ BugfixUrgentFirst
    /\ AddedLabels = {<<"b","u","g">>}

\* The bug alias group of rule 4 applies: the answer contains bug, fix or
\* error and some label contains "bug"
BugAliasApplies ==
    /\ BugLike(classification)
    /\ \E i \in 1..Len(labelsList) :
          includes(toLowerCase(labelsList[i]), <<"b","u","g">>)

\* C20 (as stated): when rules 1-3 fail and the bug alias group applies,
\* a label containing "bug" is added.
C20_Original ==
    (IsPRRun /\ pc = "done" /\ classification # Unset
     /\ Rules123 = {} /\ BugAliasApplies) =>
        \E l \in AddedLabels : includes(toLowerCase(l), <<"b","u","g">>)

\* C20 (amended): the resolver has no alias rule: when rules 1-3 fail no
\* label is added, also when the answer contains an alias (bug, fix,
\* error) and the label list has a label containing "bug".
C20_NoAliasRule ==
    (IsPRRun /\ pc = "done" /\ classification # Unset /\ Rules123 = {}) =>
        Logged("addLabels") = {}

C20_Witness ==
    /\ IsPRRun /\ pc = "done" /\ classification # Unset
    /\ Rules123 = {} /\ BugAliasApplies
    /\ Logged("addLabels") = {}


\* The call of validateClassification has returned
Resolved == invoked.fn = "validateClassification" /\ pc = "returned"
\* Rules 1-3 on the arguments of the call: the positions of the labels
\* that are equal to the trimmed answer, that the answer contains, that
\* contain the trimmed answer (all compared in lower case)
RuleHits ==
    LET a  == toLowerCase(invoked.classification)
        ls == invoked.labelsList
    IN  {i \in 1..Len(ls) :
            \/ toLowerCase(ls[i]) = trim(a)
            \/ includes(a, toLowerCase(ls[i]))
            \/ includes(toLowerCase(ls[i]), trim(a))}
ResolvedIs(c, labels, v) ==
    (Resolved /\ invoked.classification = c /\ invoked.labelsList = labels)
        => returned = v

TitleChecked == invoked.fn = "isValidCommitTitle" /\ pc = "returned"
\* t is type, optional "(" scope ")", ":", " ", description, where the
\* type is one of the eleven whatever its case, and scope and description
\* are non-empty texts of one line
ConventionalForm(t) ==
    \E ty \in CommitTypes, scope \in 0..Len(t), desc \in 1..Len(t) :
        LET n == Len(ty)
            m == IF scope = 0 THEN n ELSE n + scope + 2
        IN  /\ Len(t) = m + 2 + desc
            /\ toLowerCase(SubSeq(t, 1, n)) = ty
            /\ scope > 0 =>
                  /\ t[n + 1] = "(" /\ t[m] = ")"
                  /\ OneLine(SubSeq(t, n + 2, m - 1))
            /\ t[m + 1] = ":" /\ t[m + 2] = " "
            /\ OneLine(SubSeq(t, m + 3, Len(t)))
TitleIs(title, v) ==
    (TitleChecked /\ invoked.title = title) => returned = v

\* C22: isValidCommitTitle(title) is true exactly when the trimmed title
\* is a type of the list in any case, an optional parenthesised non-empty
\* scope, a colon, one space and a non-empty description; "fix: correct
\* null check" and "FEAT(api): x" pass, "update stuff", "fix:", "fix:x",
\* "fix(): x" and "feature: x" fail.
C22_CommitTitleGrammar ==
    /\ TitleChecked =>
          (returned <=> ConventionalForm(trim(invoked.title)))
    /\ TitleIs(<<"f","i","x",":"," ","c","o","r","r","e","c","t"," ","n","u","l","l"," ","c","h","e","c","k">>, TRUE)
    /\ TitleIs(<<"F","E","A","T","(","a","p","i",")",":"," ","x">>, TRUE)
    /\ TitleIs(<<"u","p","d","a","t","e"," ","s","t","u","f","f">>, FALSE)
    /\ TitleIs(<<"f","i","x",":">>, FALSE)
    /\ TitleIs(<<"f","i","x",":","x">>, FALSE)
    /\ TitleIs(<<"f","i","x","(",")",":"," ","x">>, FALSE)
    /\ TitleIs(<<"f","e","a","t","u","r","e",":"," ","x">>, FALSE)

C22_Witness ==
    /\ TitleChecked
    /\ invoked.title = <<"F","E","A","T","(","a","p","i",")",":"," ","x">>
    /\ returned = TRUE


\* The call of analyzeFileChanges has returned
Summarized == invoked.fn = "analyzeFileChanges" /\ pc = "returned"
Min(a, b) == IF a < b THEN a ELSE b
\* The text e is the entry of file f: its first line is the name of f,
\* its status and its counts
EntryOf(e, f) ==
    split(e)[1] = f.filename \o <<"(">> \o f.status \o <<",","+">>
                  \o NumberToString(f.additions) \o <<"/","-">>
                  \o NumberToString(f.deletions) \o <<")">>

\* C23: for a diff of T files and a file cap N >= 1 the summary has
\* exactly min(T, N) entries, those of the first files in their order,
\* and the truncation note is appended iff T > N, with total = T and
\* shown = N; 7 files with the cap 3 of preset light give 3 entries and
\* the note total = 7, shown = 3.
C23_FileCap ==
    (Summarized /\ invoked.max_files_to_analyze >= 1) =>
        LET T == Len(invoked.data)
            N == invoked.max_files_to_analyze
        IN  /\ Len(returned.entries) = Min(T, N)
            /\ \A i \in 1..Len(returned.entries) :
                  EntryOf(returned.entries[i], invoked.data[i])
            /\ (returned.note # NoNote) <=> (T > N)
            /\ T > N => returned.note = [total |-> T, shown |-> N]
            /\ (T = 7 /\ N = 3) =>
                  /\ Len(returned.entries) = 3
                  /\ returned.note = [total |-> 7, shown |-> 3]

C23_Witness ==
    /\ Summarized
    /\ Len(invoked.data) = 7 /\ invoked.max_files_to_analyze = 3
    /\ Len(returned.entries) = 3
    /\ returned.note = [total |-> 7, shown |-> 3]


\* The lines of a text
Lines(text) == split(text)
\* The added and removed lines of a patch, in order
ChangedLines(patch) ==
    LET all  == Lines(patch)
        keep == {i \in 1..Len(all) :
                    Len(all[i]) > 0 /\ all[i][1] \in {"+", "-"}}
        nth(k) == CHOOSE i \in keep : Cardinality({j \in keep : j <= i}) = k
    IN  [k \in 1..Cardinality(keep) |-> all[nth(k)]]
\* The entry ends with the "..." marker
HasMarker(e) ==
    Len(Lines(e)) > 1 /\ Lines(e)[Len(Lines(e))] = <<".",".",".">>
\* The diff lines an entry lists: its lines after the first, without the
\* marker
Listed(e) ==
    SubSeq(Lines(e), 2, Len(Lines(e)) - (IF HasMarker(e) THEN 1 ELSE 0))

\* C24: with a lines-per-file cap M >= 1, the entry of a file lists at
\* most M diff lines, each starting with + or -, they are the first M
\* added/removed lines of the patch in order, "..." follows them iff the
\* patch has more than M added/removed lines, and the entry of a file
\* without a patch is its name, status and counts only.
C24_PatchLineCap ==
    (Summarized /\ invoked.max_patch_lines_per_file >= 1) =>
        \A i \in 1..Len(returned.entries) :
            LET M == invoked.max_patch_lines_per_file
                e == returned.entries[i]
                f == invoked.data[i]
                changed == ChangedLines(f.patch)
            IN  /\ Len(Listed(e)) <= M
                /\ \A k \in 1..Len(Listed(e)) :
                      Listed(e)[k][1] \in {"+", "-"}
                /\ Listed(e) = SubSeq(changed, 1, Min(M, Len(changed)))
                /\ HasMarker(e) <=> (Len(changed) > M)
                /\ f.patch = <<>> => Len(Lines(e)) = 1

C24_Witness ==
    /\ Summarized
    /\ invoked.max_patch_lines_per_file = 3
    /\ Len(returned.entries) >= 3
    /\ Len(ChangedLines(invoked.data[3].patch)) = 4
    /\ Listed(returned.entries[3]) = << <<"+","x">>, <<"-","y">>, <<"+","z">> >>
    /\ HasMarker(returned.entries[3])
    /\ Len(Lines(returned.entries[1])) = 1


\* The call of detectTemplate has returned
Detected == invoked.fn = "detectTemplate" /\ pc = "returned"

\* C30: confidence = min(100, indicatorCount / max(totalLines/5, 1) * 100),
\* so it is in [0, 100]; hasTemplate iff confidence > 30, that is, for a
\* body of at most 5 lines iff indicatorCount >= 1 and for a longer body
\* iff 50 * indicatorCount > 3 * totalLines; an empty body gives
\* hasTemplate = false and confidence 0.
C30_ConfidenceAndThreshold ==
    Detected =>
        LET c    == indicatorCount(invoked.issueTitle, invoked.issueBody)
            L    == Len(Lines(invoked.issueBody))
            conf == returned.confidence
            \* indicatorCount / max(totalLines/5, 1) * 100 as a fraction
            raw  == IF L > 5 THEN [num |-> 500 * c, den |-> L]
                    ELSE [num |-> 100 * c, den |-> 1]
        IN  /\ conf.den > 0
            /\ 0 <= conf.num /\ conf.num <= 100 * conf.den
            /\ returned.hasTemplate <=> (conf.num > 30 * conf.den)
            /\ IF invoked.issueBody = <<>>
               THEN ~returned.hasTemplate /\ conf.num = 0
               ELSE /\ IF raw.num > 100 * raw.den
                       THEN conf.num = 100 * conf.den
                       ELSE conf.num * raw.den = raw.num * conf.den
                    /\ L <= 5 => (returned.hasTemplate <=> c >= 1)
                    /\ L > 5 => (returned.hasTemplate <=> 50 * c > 3 * L)

\* A body of 50 lines with 3 indicators: the confidence is exactly 30
C30_Witness ==
    /\ Detected
    /\ Len(Lines(invoked.issueBody)) = 50
    /\ indicatorCount(invoked.issueTitle, invoked.issueBody) = 3
    /\ returned.confidence.num = 30 * returned.confidence.den
    /\ ~returned.hasTemplate


\* C25 (as stated): a run whose config.json lacks a prompt that a stage
\* reads makes no oracle call and no side-effecting call.
C25_Original ==
    missingPrompt \in Prompts => (OracleCalls = {} /\ SideEffects = {})


\* The tokens each stage asks the oracle to answer with
SpamVocabulary         == {SPAM, NOT_SPAM}
CoverageVocabulary     == {COVERED, NOT_COVERED}
IssueQualityVocabulary == {UNCLEAR, BASIC, VALID}
CommitVocabulary       == {VALID, INVALID}
PRQualityVocabulary    == {UNCLEAR, MALICIOUS, TRIVIAL, VALID}
\* The stage got an answer that is not in its vocabulary
Unrecognized(verdict, vocabulary) ==
    verdict # Unset /\ verdict \notin vocabulary
\* Some stage of the run got a token on which it ends the pipeline
TerminalTokenSeen ==
    \/ spamResult = SPAM
    \/ coverageResult = COVERED
    \/ commitResult = INVALID
    \/ IsIssueRun /\ qualityResult = BASIC
    \/ IsPRRun /\ qualityResult \in {MALICIOUS, TRIVIAL}

\* C26: an unrecognized token is handled like the token that lets the
\* stage pass: in the coverage stage every token other than COVERED gives
\* the decision KEEP and the run goes on to ask the classification
\* oracle; an unrecognized spam, commit or quality token does not give the
\* terminal decision of its stage; and without a recognized terminal
\* token (and without a blacklisted author) nothing is closed or locked.
C26_UnrecognizedTokenPasses ==
    /\ Unrecognized(spamResult, SpamVocabulary) =>
          /\ decision # "SPAM"
          /\ pc = "done" => Len(OracleSeq) >= 2 \/ coverageResult # Unset
    /\ (IsIssueRun /\ coverageResult \notin {Unset, COVERED}) =>
          /\ decision = "KEEP"
          /\ pc = "done" => LoggedArg("oracle", "classify") # {}
    /\ (IsIssueRun /\ Unrecognized(qualityResult, IssueQualityVocabulary)) =>
          result = "keep"
    /\ (IsPRRun /\ Unrecognized(commitResult, CommitVocabulary)) =>
          decision # "INVALID_COMMIT"
    /\ (IsPRRun /\ Unrecognized(qualityResult, PRQualityVocabulary)) =>
          decision = "KEEP"
    /\ (~IsBlacklisted(author, blacklistUsers) /\ ~TerminalTokenSeen) =>
          /\ Logged("close") = {} /\ Logged("lock") = {}
          /\ pending.op \notin {"close", "lock"}

C26_Witness ==
    /\ IsIssueRun /\ pc = "done"
    /\ spamResult = WithText(SPAM)
    /\ coverageResult = WithText(COVERED)
    /\ decision = "KEEP"
    /\ LoggedArg("oracle", "classify") # {}
    /\ Logged("close") = {}


\* The author's login is in the blacklist, whatever the case of either
AuthorListed ==
    \E i \in 1..Len(blacklistUsers) :
        toLowerCase(blacklistUsers[i]) = toLowerCase(author)
\* What the run handles
Artifact == IF IsIssueRun THEN "issue" ELSE "pr"

\* C27: when the author's login is in the blacklist (case-insensitively)
\* the run makes no oracle call and no README, pinned-content or diff
\* fetch, and ends having issued comment, close and lock on the issue or
\* PR; for an author not in the blacklist the blacklist comment of issues
\* is never posted and nothing is closed before an oracle was asked.
C27_BlacklistClosesWithoutAnalysis ==
    /\ ((IsIssueRun \/ IsPRRun) /\ AuthorListed) =>
          /\ OracleCalls = {}
          /\ Logged("fetch") = {}
          /\ pc = "done" =>
                Effects = << <<"comment", IF IsIssueRun THEN "issue_blacklist"
                                          ELSE "pr_closed">>,
                             <<"close", Artifact>>, <<"lock", Artifact>> >>
    /\ ~AuthorListed =>
          /\ LoggedArg("comment", "issue_blacklist") = {}
          /\ \A i \in Logged("close") :
                \E j \in 1..(i - 1) : log[j].op = "oracle"

C27_Witness ==
    /\ IsPRRun /\ pc = "done"
    /\ author = <<"E","v","e">> /\ blacklistUsers = << <<"e","v","e">> >>
    /\ Effects = << <<"comment", "pr_closed">>, <<"close", "pr">>,
                    <<"lock", "pr">> >>
    /\ OracleCalls = {} /\ Logged("fetch") = {}


\* C29 (as stated): with the documented triggers, a pull_request event
\* with action opened runs the PR pipeline (it asks the oracle or closes
\* the PR of a blacklisted author), an issues event with action opened
\* runs the issue pipeline, and any other event or action makes no oracle
\* call and no side-effecting call.
C29_Original ==
    /\ (eventName = "pull_request" /\ eventAction = "opened" /\ pc = "done")
          => (OracleCalls # {} \/ SideEffects # {})
    /\ (IsIssueRun /\ pc = "done") => (OracleCalls # {} \/ SideEffects # {})
    /\ ~(eventAction = "opened" /\ eventName \in {"issues", "pull_request"})
          => (OracleCalls = {} /\ SideEffects = {})


\* What extractUserContent finds in a body when every expression is
\* matched from the start of each line
Unshared(body) ==
    LET lines == split(body)
    IN  IF ~Truthy(body) \/ ~detectTemplate(issueTitle, body).hasTemplate
        THEN <<>>
        ELSE [i \in 1..Len(lines) |->
                 \E k \in 1..8, s \in 1..Len(lines[i]) :
                     indicatorEnds(k, lines[i])[s] > 0]

\* A request's calls and decision are those of its own artifact
OnItsOwn(request) ==
    /\ \A i \in 1..Len(request.log) : request.log[i].on = request.number
    /\ request.decision = "SPAM"
          => /\ request.spamResult # Unset
             /\ IssueSpamTerminal(request.spamResult)
    /\ request.decision = "README_COVERED"
          => /\ request.coverageResult # Unset
             /\ IssueCoverageTerminal(request.coverageResult)
    /\ IsBlacklisted(request.author, request.blacklistUsers)
          => \A i \in 1..Len(request.log) : request.log[i].op # "oracle"

\* A step leaves the shared expressions as they were loaded, finds in a
\* body the sections it has by itself, and leaves the suspended request
\* as it was
StepOnItsOwn ==
    /\ \A k \in 1..8 : lastIndex'[k] = 0
    /\ headers' # headers
          => headers' = Unset \/ headers' = Unshared(issueBody')
    /\ other' # other => other' = NoRun \/ other' = Current
    /\ OnItsOwn(Current')

\* C28: two requests for different issues, interleaved at their awaits,
\* share no state that changes: the shared expressions keep lastIndex 0,
\* and each request finds the sections of its own body, records oracle
\* and platform calls on its own issue only, draws its decision from its
\* own verdicts and is not changed while it is suspended.
C28_RequestsShareNoState ==
    /\ \A k \in 1..8 : lastIndex[k] = 0
    /\ [][StepOnItsOwn]_vars

\* C28 witness: the first request has analysed its body after the second
\* one, started later, analysed its own and was suspended in its spam
\* check; both bodies have sections
C28_Witness ==
    /\ other # NoRun
    /\ number = 1 /\ other.number = 2
    /\ pc = "detectSpam" /\ other.pc = "detectSpam"
    /\ headers # Unset /\ other.headers # Unset
    /\ \E i \in 1..Len(headers) : headers[i]
    /\ \E i \in 1..Len(other.headers) : other.headers[i]
    /\ other.log # <<>>


\* C31 (as stated): the keyword list adds to the indicator count only when
\* at least 2 keywords occur in the body; a body that is one field name
\* (such as "bug" followed by u63cf u8ff0) gets nothing from the list, so
\* that under a title without prefix no template is detected.
C31_Original ==
    /\ Detected
    /\ invoked.issueBody \in COMMON_FIELDS
    /\ \A prefix \in TITLE_PREFIXES : ~includes(invoked.issueTitle, prefix)
    => /\ ~returned.hasTemplate
       /\ returned.confidence.num = 0


\* The call of analyzeIssueQuality has returned
Analyzed == invoked.fn = "analyzeIssueQuality" /\ pc = "returned"

\* The number of lines of the body that open a section
DetectedSections ==
    Cardinality({i \in 1..Len(returned.headers) : returned.headers[i]})

\* C32 (as stated): for a templated body totalSections counts all the
\* sections detected, those with empty or placeholder content included,
\* and validSections the sections retained: validSections <= totalSections,
\* strictly when a detected section was not retained.
C32_Original ==
    Analyzed /\ returned.templateInfo.hasTemplate =>
        LET info == returned.contentInfo
        IN  /\ info.totalSections = DetectedSections
            /\ info.validSections <= info.totalSections
            /\ info.validSections < DetectedSections
                  => info.validSections < info.totalSections

\* Content that the rule set describes as empty: a placeholder, nothing
\* but whitespace and punctuation, or fewer than 3 characters left when
\* checkboxes, markup characters, whitespace and table bars are taken out
DescribedEmpty(content) ==
    LET punctuation == {".", ",", ";", ":", "!", "?", "-", "_", "*", "#",
                        ">", "|", "[", "]", "(", ")", "/"}
        stripped == without(without(withoutCheckboxes(content),
                                    {"-", "_", "*", "#", ">"} \cup WhiteSpace),
                            {"|"})
    IN  \/ toLowerCase(trim(content)) \in
              {<<"_","n","o"," ","r","e","s","p","o","n","s","e","_">>,
               <<"n","/","a">>, <<"n","o","n","e">>}
        \/ \A i \in 1..Len(content) :
              content[i] \in punctuation \cup WhiteSpace
        \/ Len(stripped) < 3

\* C33 (as stated): a section whose content is a placeholder, whitespace
\* or punctuation only, or has fewer than 3 meaningful characters is
\* left out; isEmpty holds exactly when no section is retained; without a
\* template the body is returned as it is, with isEmpty = body is blank.
C33_Original ==
    Analyzed =>
        LET info == returned.contentInfo
        IN  IF returned.templateInfo.hasTemplate
            THEN /\ \A i \in 1..Len(info.extractedSections) :
                        ~DescribedEmpty(info.extractedSections[i].content)
                 /\ info.isEmpty <=> Len(info.extractedSections) = 0
            ELSE /\ info.userContent = invoked.issueBody
                 /\ info.isEmpty <=> Len(trim(invoked.issueBody)) = 0


\* The title term and the content term of the score, the free-form
\* branches on the length of the trimmed body
TitleTerm ==
    IF Len(trim(invoked.issueTitle)) > 10 THEN 15 ELSE -10
ContentTerm(bodyLength) ==
    LET info == returned.contentInfo
    IN  IF returned.templateInfo.hasTemplate
        THEN IF ~info.isEmpty /\ info.validSections >= 2 THEN 25
             ELSE IF ~info.isEmpty THEN 10
             ELSE -20
        ELSE IF bodyLength > 50 THEN 20
             ELSE IF bodyLength > 10 THEN 5
             ELSE -25
Clamp(n) == IF n < 0 THEN 0 ELSE IF n > 100 THEN 100 ELSE n

\* C34 (as stated): score = clamp of 50 + title term + content term, the
\* free-form content term decided by the length of the body.
C34_Original ==
    Analyzed =>
        returned.quality.score
            = Clamp(50 + TitleTerm + ContentTerm(Len(invoked.issueBody)))

\* C34: score = clamp to [0, 100] of 50 + title term + content term; the
\* title term is +15 for a trimmed title of more than 10 characters and
\* -10 otherwise; the content term is +25 (templated, not empty, at least
\* 2 valid sections), +10 (templated, not empty, fewer), -20 (templated,
\* empty), and without a template +20 for a trimmed body of more than 50
\* characters, +5 for one of more than 10, -25 otherwise.
C34_QualityScore ==
    Analyzed =>
        returned.quality.score
            = Clamp(50 + TitleTerm
                       + ContentTerm(Len(trim(invoked.issueBody))))

\* C34 witness: a body of 53 characters, 50 when trimmed, under a title
\* of 12 characters, 6 when trimmed: 50 - 10 + 5
C34_Witness ==
    /\ Analyzed
    /\ ~returned.templateInfo.hasTemplate
    /\ Len(invoked.issueBody) > 50
    /\ Len(trim(invoked.issueBody)) = 50
    /\ Len(invoked.issueTitle) > 10
    /\ Len(trim(invoked.issueTitle)) < 10
    /\ returned.quality.score = 45

\* C35: the level is high iff score >= 70, medium iff 40 <= score < 70,
\* low iff score < 40; the score is one of 15, 20, 40, 45, 50, 60, 65, 70,
\* 75, 85, 90, so that the clamp changes nothing; high needs a trimmed
\* title of more than 10 characters, low a shorter title together with an
\* empty templated body or a free-form body of at most 10 characters.
C35_QualityLevel ==
    Analyzed =>
        LET score == returned.quality.score
            level == returned.quality.level
            long  == Len(trim(invoked.issueTitle)) > 10
            content == ContentTerm(Len(trim(invoked.issueBody)))
        IN  /\ level = "high" <=> score >= 70
            /\ level = "medium" <=> (40 <= score /\ score < 70)
            /\ level = "low" <=> score < 40
            /\ score \in {15, 20, 40, 45, 50, 60, 65, 70, 75, 85, 90}
            /\ score = 50 + TitleTerm + content
            /\ level = "high" => long
            /\ level = "low" => ~long /\ content \in {-20, -25}

\* C35 witness: the lowest score that is high, 50 + 15 + 5
C35_Witness ==
    /\ Analyzed
    /\ returned.quality.score = 70
    /\ returned.quality.level = "high"
    /\ ~returned.templateInfo.hasTemplate


\* C36 (as stated): whatever calls of a terminal action failed, an
\* artifact that the run has locked has also been closed by the run.
C36_Original ==
    \A i \in Logged("lock") :
        log[i].ok => \E j \in Logged("close") : j < i /\ log[j].ok


\* C37: a close or lock call is made only in a run whose author is
\* blacklisted, or in which the oracle of a stage returned the terminal
\* token of that stage: SPAM (stage 1), COVERED (issue stage 2), INVALID
\* (PR commit compliance), BASIC (issue quality), MALICIOUS or TRIVIAL (PR
\* quality). NOT_SPAM, VALID, UNCLEAR, a token with text around it, or a
\* terminal token of another stage never lead to a close or lock call,
\* and a lock call needs a cause other than COVERED.
C37_CloseNeedsTerminalVerdict ==
    LET listed == IsBlacklisted(author, blacklistUsers)
        issueCause == \/ spamResult = SPAM
                      \/ coverageResult = COVERED
                      \/ qualityResult = BASIC
        prCause == \/ spamResult = SPAM
                   \/ commitResult = INVALID
                   \/ qualityResult \in {MALICIOUS, TRIVIAL}
    IN  /\ Logged("close") \cup Logged("lock") # {}
           => \/ listed
              \/ IsIssueRun /\ issueCause
              \/ IsPRRun /\ prCause
        /\ Logged("lock") # {}
           => \/ listed
              \/ IsIssueRun /\ (spamResult = SPAM \/ qualityResult = BASIC)
              \/ IsPRRun /\ prCause

\* C37 witness: a pull request whose commit oracle answered INVALID with
\* text around it went on and was closed and locked on the quality
\* verdict TRIVIAL
C37_Witness ==
    /\ IsPRRun /\ pc = "done"
    /\ ~IsBlacklisted(author, blacklistUsers)
    /\ commitResult \notin {Unset, INVALID}
    /\ includes(commitResult, INVALID)
    /\ qualityResult = TRIVIAL
    /\ \E i \in Logged("close") : log[i].ok
    /\ \E i \in Logged("lock") : log[i].ok


\* C38 (as stated): in an issue run a label is added only on the final
\* decision KEEP: the add-label call never precedes the quality oracle
\* call, and a run whose quality verdict is BASIC or UNCLEAR has issued no
\* add-label call.
C38_Original ==
    IsIssueRun =>
        /\ \A i \in Logged("addLabels"), j \in LoggedArg("oracle", "quality") :
              j < i
        /\ qualityResult \in {BASIC, UNCLEAR} => Logged("addLabels") = {}


\* The number of oracle calls made for a purpose
Asks(purpose) == Cardinality(LoggedArg("oracle", purpose))

\* The calls of the run so far are within the bounds of its pipeline
BoundedCalls ==
    /\ \A purpose \in {log[i].arg : i \in OracleCalls} : Asks(purpose) = 1
    /\ IsIssueRun =>
          /\ Cardinality(OracleCalls) <= 5
          /\ {log[i].arg : i \in OracleCalls}
                \subseteq {"spam", "coverage", "answer", "classify",
                           "quality", "smart"}
          /\ Asks("answer") + Asks("classify") <= 1
    /\ IsPRRun =>
          /\ Cardinality(OracleCalls) <= 4
          /\ {log[i].arg : i \in OracleCalls}
                \subseteq {"pr_spam", "pr_commit", "pr_quality", "pr_classify"}
    /\ ~IsIssueRun /\ ~IsPRRun => log = <<>>
    /\ Cardinality(Logged("addLabels")) <= 1
    /\ \A i \in Logged("addLabels") :
          \E k \in 1..Len(labelsList) : log[i].label = labelsList[k]

\* The positions of a run, each before the positions it can lead to
Positions ==
    <<"load", "run", "issue", "pr", "getReadme", "getPinned", "fileChanges",
      "detectSpam", "prSpam", "coverage", "prCommit", "prQuality", "decided",
      "generateAnswer", "addAnswer", "classify", "prClassify", "addLabel",
      "prAddLabel", "quality", "unclear", "basic", "exec", "done">>

\* A bound on the steps the run has left: the positions after pc, and in
\* executeApiCalls two steps for each call left and one for the call in
\* flight
StepsLeft(at, queue, inFlight) ==
    4 * (Len(Positions) - CHOOSE k \in 1..Len(Positions) : Positions[k] = at)
    + 2 * Len(queue) + (IF inFlight = NoCall THEN 0 ELSE 1)

\* A run that has not ended can take a step: the guards of the steps,
\* which draw what the oracle and the platform answer from sets that are
\* not empty
CanStep ==
    /\ \E k \in 1..Len(Positions) : Positions[k] = pc
    /\ pc = "exec" => (pending # NoCall \/ calls # <<>>)
    /\ pc = "decided" => (IsIssueRun \/ IsPRRun)

\* C39: every run ends, whatever the oracle answers and whichever calls
\* fail: a run that has not ended can take a step, every step leaves
\* fewer steps to take, and all along an issue run has made at most 5
\* oracle calls (spam, coverage, then answer generation or classification,
\* quality, smart answer), a PR run at most 4, each of them at most once,
\* and at most one add-label call, with a label of the configured list.
C39_RunsEndWithinBounds ==
    /\ []BoundedCalls
    /\ []CanStep
    /\ [][StepsLeft(pc', calls', pending') < StepsLeft(pc, calls, pending)]_vars

\* C39 witness: an issue run has ended after the oracle calls for spam,
\* coverage, classification and quality and one add-label call
C39_Witness ==
    /\ IsIssueRun /\ pc = "done"
    /\ OracleSeq = <<"spam", "coverage", "classify", "quality">>
    /\ Cardinality(Logged("addLabels")) = 1
    /\ StepsLeft(pc, calls, pending) = 0


====
